---------------------------- MODULE Spec2Model ----------------------------
(***************************************************************************)
(* Email validator / scanner (src/unnamed/part_000).                       *)
(*                                                                         *)
(* A text is a sequence of byte values 0..255.  The source indexes its     *)
(* buffers from 0; At(text, i) reads the byte at the source's offset i,    *)
(* so every index expression below is the source's own.                    *)
(***************************************************************************)
EXTENDS Integers, Sequences, FiniteSets, TLC

VARIABLES text,             \* the bytes of the view handed to the operation under way
          data,             \* the view's buffer handle: "buffer", or "null" for nullptr
          pc,               \* where the driver stands: "idle", inside a call, after it
          frame,            \* the locals of the running contains / extract call
          found,            \* what contains(text) returned
          emails,           \* what extract(text) returned
          result,           \* what the validator called on text returned
          validationCount,  \* ValidationStats counters
          scanCount,
          extractCount,
          errorCount,
          threads           \* the isValid calls running at once on one EmailValidator

vars == <<text, data, pc, frame, found, emails, result,
          validationCount, scanCount, extractCount, errorCount, threads>>

-----------------------------------------------------------------------------
(* Byte values of the character literals the source compares against.      *)
ChTab == 9
ChSpace == 32
ChBang == 33
ChDQuote == 34
ChHash == 35
ChApos == 39
ChDash == 45
ChDot == 46
ChSlash == 47
Ch0 == 48
Ch1 == 49
Ch2 == 50
Ch5 == 53
Ch6 == 54
Ch9 == 57
ChColon == 58
ChEquals == 61
ChQuestion == 63
ChAt == 64
ChUpperA == 65
ChUpperI == 73
ChUpperP == 80
ChUpperV == 86
ChUpperZ == 90
ChLBracket == 91
ChBackslash == 92
ChRBracket == 93
ChUnderscore == 95
ChBacktick == 96
ChLowerA == 97
ChLowerF == 102
ChLowerI == 105
ChLowerP == 112
ChLowerV == 118

(* std::string_view::npos, static_cast<size_t>(-1): a value no offset equals. *)
npos == -1

INT_MAX == 2147483647

At(t, i) == t[i + 1]

(* F(v), with v evaluated once however often F uses it: a local the code
   assigns once and reads many times *)
Once(v, F(_)) == CHOOSE r \in {F(x) : x \in {v}} : TRUE

Min(a, b) == IF a < b THEN a ELSE b
Max(a, b) == IF a > b THEN a ELSE b

-----------------------------------------------------------------------------
(* CharacterClassifier                                                      *)
CHAR_ALPHA == 1
CHAR_DIGIT == 2
CHAR_ATEXT_SPECIAL == 4
CHAR_HEX == 8
CHAR_DOMAIN == 16
CHAR_QUOTE == 32
CHAR_INVALID_LOCAL == 64
CHAR_BOUNDARY == 128

charTable == <<
     64,  64,  64,  64,  64,  64,  64,  64,  64, 192, 192,  64,  64, 192,  64,  64,
     64,  64,  64,  64,  64,  64,  64,  64,  64,  64,  64,  64,  64,  64,  64,  64,
    192,   4,  96,   4,   4,   4,   4,  36, 192, 192,   4,   4, 192,  20,  20,   4,
     26,  26,  26,  26,  26,  26,  26,  26,  26,  26, 192, 192, 192,   4, 192,   4,
     64,  25,  25,  25,  25,  25,  25,  17,  17,  17,  17,  17,  17,  17,  17,  17,
     17,  17,  17,  17,  17,  17,  17,  17,  17,  17,  17, 192,  64, 192,   4,   4,
     36,  25,  25,  25,  25,  25,  25,  17,  17,  17,  17,  17,  17,  17,  17,  17,
     17,  17,  17,  17,  17,  17,  17,  17,  17,  17,  17,   4,   4,   4,   4,  64,
     64,  64,  64,  64,  64,  64,  64,  64,  64,  64,  64,  64,  64,  64,  64,  64,
     64,  64,  64,  64,  64,  64,  64,  64,  64,  64,  64,  64,  64,  64,  64,  64,
     64,  64,  64,  64,  64,  64,  64,  64,  64,  64,  64,  64,  64,  64,  64,  64,
     64,  64,  64,  64,  64,  64,  64,  64,  64,  64,  64,  64,  64,  64,  64,  64,
     64,  64,  64,  64,  64,  64,  64,  64,  64,  64,  64,  64,  64,  64,  64,  64,
     64,  64,  64,  64,  64,  64,  64,  64,  64,  64,  64,  64,  64,  64,  64,  64,
     64,  64,  64,  64,  64,  64,  64,  64,  64,  64,  64,  64,  64,  64,  64,  64,
     64,  64,  64,  64,  64,  64,  64,  64,  64,  64,  64,  64,  64,  64,  64,  64 >>

(* (charTable[c] & flag) != 0, flag a single bit *)
HasFlag(c, flag) == (charTable[c + 1] \div flag) % 2 = 1

isAlpha(c) == HasFlag(c, CHAR_ALPHA)
isDigit(c) == HasFlag(c, CHAR_DIGIT)
isAlphaNum(c) == HasFlag(c, CHAR_ALPHA) \/ HasFlag(c, CHAR_DIGIT)
isHexDigit(c) == HasFlag(c, CHAR_HEX)
isAtext(c) == HasFlag(c, CHAR_ALPHA) \/ HasFlag(c, CHAR_DIGIT) \/ HasFlag(c, CHAR_ATEXT_SPECIAL)
isDomainChar(c) == HasFlag(c, CHAR_DOMAIN)
isScanBoundary(c) == HasFlag(c, CHAR_BOUNDARY)
isScanRightBoundary(c) ==
    HasFlag(c, CHAR_BOUNDARY) \/ c = ChDot \/ c = ChBang \/ c = ChQuestion
isInvalidLocalChar(c) == HasFlag(c, CHAR_INVALID_LOCAL)
isQuoteChar(c) == HasFlag(c, CHAR_QUOTE)
isQtextOrQpair(c) == c >= 33 /\ c <= 126 /\ c # ChBackslash /\ c # ChDQuote

-----------------------------------------------------------------------------
(* LocalPartValidator                                                       *)
(* 64 in the source; scaled so that the length limit is met by short inputs *)
MAX_LOCAL_PART == 5

RECURSIVE DotAtomLoop(_, _, _, _)
DotAtomLoop(t, i, end, prevDot) ==
    IF i >= end THEN TRUE
    ELSE LET c == At(t, i) IN
         IF c = ChDot
         THEN IF prevDot THEN FALSE ELSE DotAtomLoop(t, i + 1, end, TRUE)
         ELSE IF ~isAtext(c) THEN FALSE ELSE DotAtomLoop(t, i + 1, end, FALSE)

(* validateDotAtom as it would be if only the first byte were tested for '.' *)
validateDotAtomFirstOnly(t, start, end) ==
    IF start >= end \/ end > Len(t) \/ end - start > MAX_LOCAL_PART THEN FALSE
    ELSE IF At(t, start) = ChDot THEN FALSE
    ELSE DotAtomLoop(t, start, end, FALSE)

validateDotAtom(t, start, end) ==
    IF start >= end \/ end > Len(t) \/ end - start > MAX_LOCAL_PART THEN FALSE
    ELSE IF At(t, start) = ChDot \/ At(t, end - 1) = ChDot THEN FALSE
    ELSE DotAtomLoop(t, start, end, FALSE)

(* QuotedStringLoop as it would be if it ended with `return true` *)
RECURSIVE QuotedStringLoopIgnorePending(_, _, _, _)
QuotedStringLoopIgnorePending(t, i, end, escaped) ==
    IF i >= end - 1 THEN TRUE
    ELSE IF i >= Len(t) THEN FALSE
    ELSE LET c == At(t, i) IN
         IF escaped
         THEN IF c > 127 THEN FALSE ELSE QuotedStringLoopIgnorePending(t, i + 1, end, FALSE)
         ELSE IF c = ChBackslash THEN QuotedStringLoopIgnorePending(t, i + 1, end, TRUE)
         ELSE IF c = ChDQuote THEN FALSE
         ELSE IF ~isQtextOrQpair(c) /\ c # ChSpace /\ c # ChTab THEN FALSE
         ELSE QuotedStringLoopIgnorePending(t, i + 1, end, FALSE)

RECURSIVE QuotedStringLoop(_, _, _, _)
QuotedStringLoop(t, i, end, escaped) ==
    IF i >= end - 1 THEN ~escaped
    ELSE IF i >= Len(t) THEN FALSE
    ELSE LET c == At(t, i) IN
         IF escaped
         THEN IF c > 127 THEN FALSE ELSE QuotedStringLoop(t, i + 1, end, FALSE)
         ELSE IF c = ChBackslash THEN QuotedStringLoop(t, i + 1, end, TRUE)
         ELSE IF c = ChDQuote THEN FALSE
         ELSE IF ~isQtextOrQpair(c) /\ c # ChSpace /\ c # ChTab THEN FALSE
         ELSE QuotedStringLoop(t, i + 1, end, FALSE)

validateQuotedString(t, start, end) ==
    IF start >= end \/ end > Len(t) \/ end - start > MAX_LOCAL_PART + 2 THEN FALSE
    ELSE IF At(t, start) # ChDQuote \/ At(t, end - 1) # ChDQuote THEN FALSE
    ELSE IF end - start < 3 THEN FALSE
    ELSE QuotedStringLoop(t, start + 1, end, FALSE)

RECURSIVE ScanModeLoop(_, _, _, _)
ScanModeLoop(t, i, end, prevDot) ==
    IF i >= end THEN TRUE
    ELSE IF i >= Len(t) THEN FALSE
    ELSE LET c == At(t, i) IN
         IF c = ChDot
         THEN IF prevDot THEN FALSE ELSE ScanModeLoop(t, i + 1, end, TRUE)
         ELSE IF ~isAtext(c) THEN FALSE ELSE ScanModeLoop(t, i + 1, end, FALSE)

(* validateScanMode as it would be without the test of the last byte *)
validateScanModeTrailingDot(t, start, end) ==
    IF start >= end \/ end > Len(t) \/ end - start > MAX_LOCAL_PART THEN FALSE
    ELSE IF At(t, start) = ChDQuote \/ At(t, start) = ChDot THEN FALSE
    ELSE ScanModeLoop(t, start, end, FALSE)

(* validateScanMode as it would be without the length ceiling *)
validateScanModeNoMax(t, start, end) ==
    IF start >= end \/ end > Len(t) THEN FALSE
    ELSE IF At(t, start) = ChDQuote \/ At(t, start) = ChDot \/ At(t, end - 1) = ChDot
         THEN FALSE
    ELSE ScanModeLoop(t, start, end, FALSE)

validateScanMode(t, start, end) ==
    IF start >= end \/ end > Len(t) \/ end - start > MAX_LOCAL_PART THEN FALSE
    ELSE IF At(t, start) = ChDQuote \/ At(t, start) = ChDot \/ At(t, end - 1) = ChDot
         THEN FALSE
    ELSE ScanModeLoop(t, start, end, FALSE)

(* validate as it would be if the mode were not looked at *)
validateLocalPartIgnoreMode(t, start, end, mode) ==
    IF start >= end \/ end > Len(t) THEN FALSE
    ELSE IF At(t, start) = ChDQuote THEN validateQuotedString(t, start, end)
    ELSE validateDotAtom(t, start, end)

(* LocalPartValidator::validate; mode is "EXACT" or "SCAN" *)
validateLocalPart(t, start, end, mode) ==
    IF start >= end \/ end > Len(t) THEN FALSE
    ELSE IF mode = "SCAN" THEN validateScanMode(t, start, end)
    ELSE IF At(t, start) = ChDQuote THEN validateQuotedString(t, start, end)
    ELSE validateDotAtom(t, start, end)

-----------------------------------------------------------------------------
(* DomainPartValidator                                                      *)
(* 253 and 63 in the source; scaled likewise *)
MAX_DOMAIN_PART == 7
MAX_LABEL_LENGTH == 3

(* first loop of validateDomainLabels: no two consecutive '.' *)
RECURSIVE NoDoubleDotLoop(_, _, _, _)
NoDoubleDotLoop(t, i, end, prevDot) ==
    IF i >= end THEN TRUE
    ELSE IF i >= Len(t) THEN FALSE
    ELSE IF At(t, i) = ChDot
         THEN IF prevDot THEN FALSE ELSE NoDoubleDotLoop(t, i + 1, end, TRUE)
         ELSE NoDoubleDotLoop(t, i + 1, end, FALSE)

(* second loop: for (i = end; i-- > start;) the last '.' of [start, end), or npos *)
RECURSIVE LastDotPos(_, _, _)
LastDotPos(t, start, i) ==
    IF ~(i > start) THEN npos
    ELSE IF At(t, i - 1) = ChDot THEN i - 1
    ELSE LastDotPos(t, start, i - 1)

RECURSIVE LabelCharsLoop(_, _, _)
LabelCharsLoop(t, j, labelEnd) ==
    IF j >= labelEnd THEN TRUE
    ELSE LET c == At(t, j) IN
         IF ~isAlphaNum(c) /\ c # ChDash THEN FALSE
         ELSE LabelCharsLoop(t, j + 1, labelEnd)

(* third loop: returns the label count, or -1 where the source returns false *)
RECURSIVE LabelLoop(_, _, _, _, _)
LabelLoop(t, i, end, labelStart, labelCount) ==
    IF i > end THEN labelCount
    ELSE IF i = end \/ At(t, i) = ChDot
    THEN LET labelLen == i - labelStart IN
         IF labelLen = 0 \/ labelLen > MAX_LABEL_LENGTH THEN -1
         ELSE IF labelStart >= Len(t) \/ labelStart + labelLen > Len(t) THEN -1
         ELSE IF At(t, labelStart) = ChDash \/ At(t, labelStart + labelLen - 1) = ChDash
              THEN -1
         ELSE IF ~LabelCharsLoop(t, labelStart, labelStart + labelLen) THEN -1
         ELSE LabelLoop(t, i + 1, end, i + 1, labelCount + 1)
    ELSE LabelLoop(t, i + 1, end, labelStart, labelCount)

(* TldLoop as it would be if the last label were held to the rule of the
   other labels' inner bytes *)
RECURSIVE TldLoopAllowDash(_, _, _)
TldLoopAllowDash(t, i, end) ==
    IF i >= end THEN TRUE
    ELSE IF ~isAlphaNum(At(t, i)) /\ At(t, i) # ChDash THEN FALSE
    ELSE TldLoopAllowDash(t, i + 1, end)

RECURSIVE TldLoop(_, _, _)
TldLoop(t, i, end) ==
    IF i >= end THEN TRUE
    ELSE IF ~isAlphaNum(At(t, i)) THEN FALSE
    ELSE TldLoop(t, i + 1, end)

validateDomainLabels(t, start, end) ==
    IF start >= end \/ end > Len(t) \/ end - start < 1 \/ end - start > MAX_DOMAIN_PART
    THEN FALSE
    ELSE IF At(t, start) = ChDot \/ At(t, start) = ChDash
            \/ At(t, end - 1) = ChDot \/ At(t, end - 1) = ChDash
    THEN FALSE
    ELSE IF ~NoDoubleDotLoop(t, start, end, FALSE) THEN FALSE
    ELSE LET lastDotPos == LastDotPos(t, start, end)
             labelCount == LabelLoop(t, start, end, start, 0)
         IN IF labelCount < 1 THEN FALSE
            ELSE IF labelCount >= 2 /\ lastDotPos # npos
            THEN LET tldStart == lastDotPos + 1
                     tldLen == end - tldStart
                 IN IF tldLen < 1 THEN FALSE ELSE TldLoop(t, tldStart, end)
            ELSE TRUE

(* ParseOctet as it would be without the leading-zero test *)
RECURSIVE ParseOctetLeadingZero(_, _, _, _, _, _)
ParseOctetLeadingZero(t, j, i, groupLen, octet, digitCount) ==
    IF j >= i THEN octet
    ELSE IF ~isDigit(At(t, j)) THEN -1
    ELSE LET digit == At(t, j) - Ch0 IN
         IF octet > (INT_MAX - digit) \div 10 THEN -1
         ELSE ParseOctetLeadingZero(t, j + 1, i, groupLen, octet * 10 + digit, digitCount + 1)

(* inner loop of validateIPv4: the value of the group [j, i), or -1 where
   the source returns false; groupLen is i - numStart *)
RECURSIVE ParseOctet(_, _, _, _, _, _)
ParseOctet(t, j, i, groupLen, octet, digitCount) ==
    IF j >= i THEN octet
    ELSE IF ~isDigit(At(t, j)) THEN -1
    ELSE IF digitCount = 0 /\ At(t, j) = Ch0 /\ groupLen > 1 THEN -1
    ELSE LET digit == At(t, j) - Ch0 IN
         IF octet > (INT_MAX - digit) \div 10 THEN -1
         ELSE ParseOctet(t, j + 1, i, groupLen, octet * 10 + digit, digitCount + 1)

RECURSIVE IPv4Loop(_, _, _, _, _)
IPv4Loop(t, i, end, octetIdx, numStart) ==
    IF ~(i <= end /\ octetIdx < 4)
    THEN IF octetIdx # 4 THEN FALSE
         ELSE IF numStart - 1 # end THEN FALSE
         ELSE TRUE
    ELSE IF i = end \/ At(t, i) = ChDot
    THEN IF i = numStart \/ octetIdx >= 4 THEN FALSE
         ELSE LET octet == ParseOctet(t, numStart, i, i - numStart, 0, 0) IN
              IF octet < 0 THEN FALSE
              ELSE IF octet > 255 THEN FALSE
              ELSE IPv4Loop(t, i + 1, end, octetIdx + 1, i + 1)
    ELSE IPv4Loop(t, i + 1, end, octetIdx, numStart)

validateIPv4(t, start, end) ==
    IF start >= end \/ end > Len(t) THEN FALSE
    ELSE IPv4Loop(t, start, end, 0, start)

MAX_IPV6_ITERATIONS == 1000

(* inner while of validateIPv6: consumes hex digits, stops once a fifth is read *)
RECURSIVE HexRun(_, _, _, _)
HexRun(t, end, p, hexDigits) ==
    IF p < end /\ p < Len(t) /\ isHexDigit(At(t, p))
    THEN IF hexDigits + 1 > 4 THEN [pos |-> p + 1, hexDigits |-> hexDigits + 1]
         ELSE HexRun(t, end, p + 1, hexDigits + 1)
    ELSE [pos |-> p, hexDigits |-> hexDigits]

(* IPv6Finish as it would be if a compressed address could fill all 8 groups *)
IPv6FinishEight(segmentCount, hasCompression, iters) ==
    IF iters >= MAX_IPV6_ITERATIONS THEN FALSE
    ELSE IF hasCompression THEN segmentCount <= 8
    ELSE segmentCount = 8

(* the statements after the while loop of validateIPv6 *)
IPv6Finish(segmentCount, hasCompression, iters) ==
    IF iters >= MAX_IPV6_ITERATIONS THEN FALSE
    ELSE IF hasCompression THEN segmentCount <= 7
    ELSE segmentCount = 8

(* the locals of validateIPv6 where the loop stands: "continue" before the
   next evaluation of the while condition, "break" once the loop is left,
   "return" once a return statement inside it has fixed the value *)
IPv6Locals(kind, value, p, segmentCount, hasCompression, iters) ==
    [kind |-> kind, value |-> value, pos |-> p, segmentCount |-> segmentCount,
     hasCompression |-> hasCompression, iterations |-> iters]

(* one evaluation of the while condition of validateIPv6 and, when it holds,
   one pass through the loop body *)
IPv6Iter(t, end, p, segmentCount, hasCompression, iters) ==
    IF ~(p < end) THEN IPv6Locals("break", FALSE, p, segmentCount, hasCompression, iters)
    ELSE IF ~(iters < MAX_IPV6_ITERATIONS)
    THEN IPv6Locals("break", FALSE, p, segmentCount, hasCompression, iters + 1)
    ELSE LET it1 == iters + 1
             segStart == p
             h == HexRun(t, end, p, 0)
             p1 == h.pos
             seg1 == IF h.hexDigits > 0 THEN segmentCount + 1 ELSE segmentCount
             return(v) == IPv6Locals("return", v, p1, seg1, hasCompression, it1)
         IN IF h.hexDigits > 4 THEN return(FALSE)
            ELSE IF h.hexDigits > 0 /\ seg1 > 8 THEN return(FALSE)
            ELSE IF h.hexDigits > 0 /\ p1 < end /\ p1 < Len(t) /\ At(t, p1) = ChDot
            THEN IF validateIPv4(t, segStart, end)
                 THEN IPv6Locals("break", FALSE, p1, seg1 - 1 + 2, hasCompression, it1)
                 ELSE return(FALSE)
            ELSE IF p1 >= end THEN IPv6Locals("break", FALSE, p1, seg1, hasCompression, it1)
            ELSE IF At(t, p1) = ChColon
            THEN LET p2 == p1 + 1 IN
                 IF p2 < end /\ p2 < Len(t) /\ At(t, p2) = ChColon
                 THEN IF hasCompression THEN return(FALSE)
                      ELSE IF p2 + 1 >= end
                      THEN IPv6Locals("break", FALSE, p2 + 1, seg1, TRUE, it1)
                      ELSE IPv6Locals("continue", FALSE, p2 + 1, seg1, TRUE, it1)
                 ELSE IF h.hexDigits = 0 THEN return(FALSE)
                 ELSE IF p2 >= end THEN return(FALSE)
                 ELSE IPv6Locals("continue", FALSE, p2, seg1, hasCompression, it1)
            ELSE return(FALSE)

(* what validateIPv6 returns once its loop stands at r with r.kind # "continue" *)
IPv6Value(r) ==
    IF r.kind = "return" THEN r.value
    ELSE IPv6Finish(r.segmentCount, r.hasCompression, r.iterations)

RECURSIVE IPv6Loop(_, _, _, _, _, _)
IPv6Loop(t, end, p, segmentCount, hasCompression, iters) ==
    Once(IPv6Iter(t, end, p, segmentCount, hasCompression, iters), LAMBDA r :
        IF r.kind = "continue"
        THEN IPv6Loop(t, end, r.pos, r.segmentCount, r.hasCompression, r.iterations)
        ELSE IPv6Value(r))

(* the statements of validateIPv6 before its loop *)
IPv6Start(t, start, end) ==
    IF start >= end \/ end > Len(t) THEN IPv6Locals("return", FALSE, start, 0, FALSE, 0)
    ELSE IF start + 1 <= end /\ start + 1 <= Len(t)
            /\ At(t, start) = ChColon /\ At(t, start + 1) = ChColon
    THEN IF start + 2 >= end THEN IPv6Locals("return", TRUE, start + 2, 0, TRUE, 0)
         ELSE IPv6Locals("continue", FALSE, start + 2, 0, TRUE, 0)
    ELSE IF start < Len(t) /\ At(t, start) = ChColon
    THEN IPv6Locals("return", FALSE, start, 0, FALSE, 0)
    ELSE IPv6Locals("continue", FALSE, start, 0, FALSE, 0)

validateIPv6(t, start, end) ==
    Once(IPv6Start(t, start, end), LAMBDA r :
        IF r.kind = "continue"
        THEN IPv6Loop(t, end, r.pos, r.segmentCount, r.hasCompression, r.iterations)
        ELSE IPv6Value(r))

(* (p[k] | 0x20) == lower: sets bit 5 of the byte before comparing *)
Or0x20(c) == IF (c \div 32) % 2 = 1 THEN c ELSE c + 32

HasIPv6Tag(t, ipStart) ==
    /\ Or0x20(At(t, ipStart)) = ChLowerI
    /\ Or0x20(At(t, ipStart + 1)) = ChLowerP
    /\ Or0x20(At(t, ipStart + 2)) = ChLowerV
    /\ At(t, ipStart + 3) = Ch6
    /\ At(t, ipStart + 4) = ChColon

(* HasColonLoop as it would be if an untagged interior holding a ':' were
   handed on as an address *)
RECURSIVE HasColonLoopAccept(_, _, _)
HasColonLoopAccept(t, i, ipEnd) ==
    IF i >= ipEnd THEN FALSE
    ELSE IF i >= Len(t) THEN FALSE
    ELSE IF At(t, i) = ChColon THEN TRUE
    ELSE HasColonLoopAccept(t, i + 1, ipEnd)

RECURSIVE HasColonLoop(_, _, _)
HasColonLoop(t, i, ipEnd) ==
    IF i >= ipEnd THEN FALSE
    ELSE IF i >= Len(t) THEN FALSE
    ELSE IF At(t, i) = ChColon THEN FALSE
    ELSE HasColonLoop(t, i + 1, ipEnd)

validateIPLiteral(t, start, end) ==
    IF start >= end \/ end > Len(t) THEN FALSE
    ELSE IF At(t, start) # ChLBracket \/ At(t, end - 1) # ChRBracket THEN FALSE
    ELSE LET ipStart == start + 1
             ipEnd == end - 1
         IN IF ipStart >= ipEnd \/ ipEnd > Len(t) THEN FALSE
            ELSE IF end - start > 6 /\ ipStart + 5 <= Len(t) /\ HasIPv6Tag(t, ipStart)
            THEN LET addrStart ==
                         IF ipStart + 5 < ipEnd /\ ipStart + 5 < Len(t)
                            /\ At(t, ipStart + 5) = ChColon
                         THEN ipStart + 4
                         ELSE ipStart + 5
                 IN validateIPv6(t, addrStart, ipEnd)
            ELSE IF validateIPv4(t, ipStart, ipEnd) THEN TRUE
            ELSE HasColonLoop(t, ipStart, ipEnd)

(* DomainPartValidator::validate *)
validateDomainPart(t, start, end) ==
    IF start >= end \/ end > Len(t) THEN FALSE
    ELSE IF At(t, start) = ChLBracket THEN validateIPLiteral(t, start, end)
    ELSE validateDomainLabels(t, start, end)

-----------------------------------------------------------------------------
(* EmailValidator                                                           *)
MIN_EMAIL_SIZE == 5
MAX_EMAIL_SIZE == 320

(* FindAtLoop as it would be if the separator byte it looks for were '.' *)
RECURSIVE FindAtLoopDot(_, _, _, _, _)
FindAtLoopDot(t, i, atPos, inQuotes, escaped) ==
    IF i >= Len(t) THEN atPos
    ELSE LET c == At(t, i) IN
         IF escaped THEN FindAtLoopDot(t, i + 1, atPos, inQuotes, FALSE)
         ELSE IF c = ChBackslash /\ inQuotes THEN FindAtLoopDot(t, i + 1, atPos, inQuotes, TRUE)
         ELSE IF c = ChDQuote THEN FindAtLoopDot(t, i + 1, atPos, ~inQuotes, FALSE)
         ELSE IF c = ChDot /\ ~inQuotes
         THEN IF atPos # npos THEN -2
              ELSE FindAtLoopDot(t, i + 1, i, inQuotes, FALSE)
         ELSE FindAtLoopDot(t, i + 1, atPos, inQuotes, FALSE)

(* the for loop of isValid: the offset of the single unquoted '@', npos when
   there is none, or -2 where the loop returns false on a second one *)
RECURSIVE FindAtLoop(_, _, _, _, _)
FindAtLoop(t, i, atPos, inQuotes, escaped) ==
    IF i >= Len(t) THEN atPos
    ELSE LET c == At(t, i) IN
         IF escaped THEN FindAtLoop(t, i + 1, atPos, inQuotes, FALSE)
         ELSE IF c = ChBackslash /\ inQuotes THEN FindAtLoop(t, i + 1, atPos, inQuotes, TRUE)
         ELSE IF c = ChDQuote THEN FindAtLoop(t, i + 1, atPos, ~inQuotes, FALSE)
         ELSE IF c = ChAt /\ ~inQuotes
         THEN IF atPos # npos THEN -2
              ELSE FindAtLoop(t, i + 1, i, inQuotes, FALSE)
         ELSE FindAtLoop(t, i + 1, atPos, inQuotes, FALSE)

(* the boolean isValid returns; the counters are updated by the action *)
isValid(email) ==
    LET len == Len(email) IN
    IF len < MIN_EMAIL_SIZE \/ len > MAX_EMAIL_SIZE THEN FALSE
    ELSE LET atPos == FindAtLoop(email, 0, npos, FALSE, FALSE) IN
         IF atPos = -2 THEN FALSE
         ELSE IF atPos = npos \/ atPos = 0 \/ atPos >= len - 1 THEN FALSE
         ELSE validateLocalPart(email, 0, atPos, "EXACT")
              /\ validateDomainPart(email, atPos + 1, len)

-----------------------------------------------------------------------------
(* EmailScanner                                                             *)
(* scaled: 10 MiB, 10000, 100000 and 1000000 in the source *)
MAX_INPUT_SIZE == 16
MAX_EMAILS_EXTRACT == 2
MAX_SCAN_ITERATIONS == 3
MAX_TOTAL_CHARS_SCANNED == 17
(* as in the source *)
MIN_SCAN_LENGTH == 5
MAX_LEFT_SCAN == 4096
NEARBY_AT_WINDOW == 65

RECURSIVE findFirstAlnum(_, _, _)
findFirstAlnum(t, p, limit) ==
    IF ~(p < Min(limit, Len(t))) THEN npos
    ELSE IF isAlphaNum(At(t, p)) THEN p
    ELSE findFirstAlnum(t, p + 1, limit)

(* findFirstAtext as it would be if it never found a byte *)
findFirstAtextNone(t, p, limit) == npos

RECURSIVE findFirstAtext(_, _, _)
findFirstAtext(t, p, limit) ==
    IF ~(p < Min(limit, Len(t))) THEN npos
    ELSE IF isAtext(At(t, p)) THEN p
    ELSE findFirstAtext(t, p + 1, limit)

(* while (end < len && isDomainChar(data[end])) ++end *)
RECURSIVE DomainRunEnd(_, _)
DomainRunEnd(t, end) ==
    IF end < Len(t) /\ isDomainChar(At(t, end)) THEN DomainRunEnd(t, end + 1) ELSE end

(* TrimTrailing as it would be if it removed one byte, whatever the byte *)
TrimTrailingOneByte(t, atPos, end, ch) == IF end > atPos + 1 THEN end - 1 ELSE end

(* TrimTrailing as it would be if it removed nothing *)
TrimTrailingNone(t, atPos, end, ch) == end

(* while (end > atPos + 1 && data[end - 1] == ch) --end *)
RECURSIVE TrimTrailing(_, _, _, _)
TrimTrailing(t, atPos, end, ch) ==
    IF end > atPos + 1 /\ At(t, end - 1) = ch THEN TrimTrailing(t, atPos, end - 1, ch)
    ELSE end

(* the right-boundary expansion of findEmailBoundaries *)
RightEnd(t, atPos) ==
    LET e1 == DomainRunEnd(t, atPos + 1)
        e2 == TrimTrailing(t, atPos, e1, ChDot)
    IN IF e2 < Len(t) /\ At(t, e2) = ChAt THEN TrimTrailing(t, atPos, e2, ChDash) ELSE e2

(* the while (true) lookback inside the left scan *)
RECURSIVE Lookback(_, _, _, _, _, _)
Lookback(t, atPos, lookbackLimit, lookback, validStart, foundValid) ==
    IF lookback < lookbackLimit \/ lookback >= atPos \/ lookback >= Len(t)
    THEN [validStart |-> validStart, foundValid |-> foundValid]
    ELSE LET c == At(t, lookback) IN
         IF isAtext(c) /\ c # ChDot
         THEN IF lookback = lookbackLimit
              THEN [validStart |-> lookback, foundValid |-> TRUE]
              ELSE Lookback(t, atPos, lookbackLimit, lookback - 1, lookback, TRUE)
         ELSE [validStart |-> validStart, foundValid |-> foundValid]

LeftStop(start, hit, invalidCharPos) ==
    [start |-> start, hitInvalidChar |-> hit, invalidCharPos |-> invalidCharPos]

(* the left scan as it would be if an unmatched delimiter behind a byte that
   is none of '=', ':', boundary, quote stopped it *)
RECURSIVE LeftScanStopAtDelimiter(_, _, _, _, _)
LeftScanStopAtDelimiter(t, atPos, end, effectiveMin, start) ==
    IF ~(start > effectiveMin) THEN LeftStop(start, FALSE, atPos)
    ELSE LET prevChar == At(t, start - 1)
             deeper == start > effectiveMin + 1 /\ start >= 2
         IN
         IF prevChar = ChAt THEN LeftStop(start, FALSE, atPos)
         ELSE IF prevChar = ChDot /\ deeper /\ At(t, start - 2) = ChDot
         THEN LeftStop(start, TRUE, start - 1)
         ELSE IF isInvalidLocalChar(prevChar)
         THEN LET lb == IF prevChar = ChAt /\ start > effectiveMin + 1
                        THEN Lookback(t, atPos, effectiveMin, start - 2, start - 1, FALSE)
                        ELSE [validStart |-> start - 1, foundValid |-> FALSE]
              IN IF lb.foundValid
                 THEN LeftScanStopAtDelimiter(t, atPos, end, effectiveMin, lb.validStart)
                 ELSE LeftStop(start, TRUE, start)
         ELSE IF isQuoteChar(prevChar)
         THEN IF deeper /\ At(t, start - 2) = prevChar
              THEN LeftScanStopAtDelimiter(t, atPos, end, effectiveMin, start - 1)
              ELSE IF end < Len(t) /\ At(t, end) = prevChar
              THEN IF end + 1 < Len(t) /\ At(t, end + 1) = prevChar
                   THEN LeftScanStopAtDelimiter(t, atPos, end, effectiveMin, start - 1)
                   ELSE LeftStop(start, FALSE, atPos)
              ELSE IF deeper
              THEN LET prevPrevChar == At(t, start - 2) IN
                   IF prevPrevChar = ChEquals \/ prevPrevChar = ChColon
                      \/ isScanBoundary(prevPrevChar) \/ isQuoteChar(prevPrevChar)
                   THEN LeftScanStopAtDelimiter(t, atPos, end, effectiveMin, start - 1)
                   ELSE LeftStop(start, FALSE, atPos)
              ELSE IF start = effectiveMin + 1
              THEN LeftStop(start - 1, FALSE, atPos)
              ELSE LeftScanStopAtDelimiter(t, atPos, end, effectiveMin, start - 1)
         ELSE IF prevChar = ChDot THEN LeftScanStopAtDelimiter(t, atPos, end, effectiveMin, start - 1)
         ELSE IF isAtext(prevChar) THEN LeftScanStopAtDelimiter(t, atPos, end, effectiveMin, start - 1)
         ELSE LeftStop(start, FALSE, atPos)

(* the left scan: while (start > effectiveMin) ... *)
RECURSIVE LeftScan(_, _, _, _, _)
LeftScan(t, atPos, end, effectiveMin, start) ==
    IF ~(start > effectiveMin) THEN LeftStop(start, FALSE, atPos)
    ELSE LET prevChar == At(t, start - 1)
             deeper == start > effectiveMin + 1 /\ start >= 2
         IN
         IF prevChar = ChAt THEN LeftStop(start, FALSE, atPos)
         ELSE IF prevChar = ChDot /\ deeper /\ At(t, start - 2) = ChDot
         THEN LeftStop(start, TRUE, start - 1)
         ELSE IF isInvalidLocalChar(prevChar)
         THEN LET lb == IF prevChar = ChAt /\ start > effectiveMin + 1
                        THEN Lookback(t, atPos, effectiveMin, start - 2, start - 1, FALSE)
                        ELSE [validStart |-> start - 1, foundValid |-> FALSE]
              IN IF lb.foundValid
                 THEN LeftScan(t, atPos, end, effectiveMin, lb.validStart)
                 ELSE LeftStop(start, TRUE, start)
         ELSE IF isQuoteChar(prevChar)
         THEN IF deeper /\ At(t, start - 2) = prevChar
              THEN LeftScan(t, atPos, end, effectiveMin, start - 1)
              ELSE IF end < Len(t) /\ At(t, end) = prevChar
              THEN IF end + 1 < Len(t) /\ At(t, end + 1) = prevChar
                   THEN LeftScan(t, atPos, end, effectiveMin, start - 1)
                   ELSE LeftStop(start, FALSE, atPos)
              ELSE IF deeper
              THEN LET prevPrevChar == At(t, start - 2) IN
                   IF prevPrevChar = ChEquals \/ prevPrevChar = ChColon
                      \/ isScanBoundary(prevPrevChar) \/ isQuoteChar(prevPrevChar)
                   THEN LeftScan(t, atPos, end, effectiveMin, start - 1)
                   ELSE LeftScan(t, atPos, end, effectiveMin, start - 1)
              ELSE IF start = effectiveMin + 1
              THEN LeftStop(start - 1, FALSE, atPos)
              ELSE LeftScan(t, atPos, end, effectiveMin, start - 1)
         ELSE IF prevChar = ChDot THEN LeftScan(t, atPos, end, effectiveMin, start - 1)
         ELSE IF isAtext(prevChar) THEN LeftScan(t, atPos, end, effectiveMin, start - 1)
         ELSE LeftStop(start, FALSE, atPos)

(* while (start < atPos && data[start] == '.') ++start *)
RECURSIVE SkipLeadingDots(_, _, _)
SkipLeadingDots(t, atPos, start) ==
    IF start < atPos /\ At(t, start) = ChDot THEN SkipLeadingDots(t, atPos, start + 1)
    ELSE start

Boundaries(start, end, valid, skipTo) ==
    [start |-> start, end |-> end, validBoundaries |-> valid, skipTo |-> skipTo]

(* the boundary legality check on the byte before start *)
LeftBoundaryOk(t, start, effectiveMin, didRecovery) ==
    IF start > effectiveMin /\ start > 0
    THEN LET prevChar == At(t, start - 1)
             v1 == IF didRecovery THEN ~isAlphaNum(prevChar)
                   ELSE IF isInvalidLocalChar(prevChar) THEN TRUE
                   ELSE IF ~isScanBoundary(prevChar)
                           /\ prevChar # ChAt /\ prevChar # ChDot /\ prevChar # ChEquals
                           /\ prevChar # ChApos /\ prevChar # ChBacktick
                           /\ prevChar # ChDQuote /\ prevChar # ChSlash
                        THEN FALSE
                   ELSE TRUE
             v2 == IF isQuoteChar(prevChar) /\ start > effectiveMin + 1 /\ start >= 2
                      /\ LET prevPrevChar == At(t, start - 2) IN
                             isScanBoundary(prevPrevChar) \/ prevPrevChar = ChEquals
                             \/ prevPrevChar = ChColon \/ isQuoteChar(prevPrevChar)
                   THEN TRUE ELSE v1
             v3 == IF prevChar = ChSlash /\ start > effectiveMin + 1 /\ start >= 2
                      /\ At(t, start - 2) = ChSlash
                   THEN TRUE ELSE v2
         IN v3
    ELSE TRUE

(* the check on the byte at end *)
RightBoundaryOk(t, end) ==
    IF end < Len(t)
    THEN LET nextChar == At(t, end) IN
         ~(~isScanRightBoundary(nextChar)
           /\ nextChar # ChApos /\ nextChar # ChBacktick /\ nextChar # ChDQuote
           /\ nextChar # ChAt /\ nextChar # ChBackslash /\ ~isAtext(nextChar))
    ELSE TRUE

(* the recovery after the left scan met an invalid byte, and the two
   adjustments of start that follow it *)
StartAfterScan(t, atPos, effectiveMin, ls) ==
    LET from == Max(ls.invalidCharPos, effectiveMin)
        alnumPos == IF ls.hitInvalidChar THEN findFirstAlnum(t, from, atPos) ELSE npos
        atextPos == IF ls.hitInvalidChar /\ alnumPos = npos
                    THEN findFirstAtext(t, from, atPos) ELSE npos
        recoveryFails == ls.hitInvalidChar /\ alnumPos = npos /\ atextPos = npos
        start1 == IF ~ls.hitInvalidChar THEN ls.start
                  ELSE IF alnumPos # npos THEN alnumPos
                  ELSE atextPos
    IN IF recoveryFails
       THEN [recoveryFails |-> TRUE, didRecovery |-> FALSE, start |-> atPos]
       ELSE Once(SkipLeadingDots(t, atPos, start1), LAMBDA start2 :
            [recoveryFails |-> FALSE,
             didRecovery |-> ls.hitInvalidChar,
             start |-> IF start2 < atPos /\ start2 > effectiveMin /\ start2 > 0
                          /\ isInvalidLocalChar(At(t, start2 - 1))
                          /\ findFirstAlnum(t, start2, atPos) # npos
                       THEN findFirstAlnum(t, start2, atPos)
                       ELSE start2])

(* findEmailBoundaries as it would be if a failed recovery resumed at the
   invalid byte's offset instead of one past it *)
findEmailBoundariesSkipToInvalid(t, atPos, minIdx) ==
    LET len == Len(t) IN
    IF atPos >= len THEN Boundaries(atPos, atPos, FALSE, atPos)
    ELSE IF atPos + 1 < len /\ At(t, atPos + 1) = ChLBracket
    THEN Boundaries(atPos, atPos, FALSE, atPos + 1)
    ELSE
    LET effectiveMin == IF atPos > MAX_LEFT_SCAN
                        THEN Max(minIdx, atPos - MAX_LEFT_SCAN)
                        ELSE minIdx
    IN Once(RightEnd(t, atPos), LAMBDA end :
       Once(LeftScan(t, atPos, end, effectiveMin, atPos), LAMBDA ls :
       Once(StartAfterScan(t, atPos, effectiveMin, ls), LAMBDA s :
           IF s.recoveryFails
           THEN Boundaries(atPos, atPos, FALSE, Min(ls.invalidCharPos, len))
           ELSE IF s.start >= atPos
           THEN Boundaries(atPos, atPos, FALSE, Min(atPos + 1, len))
           ELSE Boundaries(s.start, end,
                           LeftBoundaryOk(t, s.start, effectiveMin, s.didRecovery)
                           /\ RightBoundaryOk(t, end),
                           0))))

(* findEmailBoundaries as it would be without the test for '[' after the '@' *)
findEmailBoundariesNoLiteralTest(t, atPos, minIdx) ==
    LET len == Len(t) IN
    IF atPos >= len THEN Boundaries(atPos, atPos, FALSE, atPos)
    ELSE
    LET effectiveMin == IF atPos > MAX_LEFT_SCAN
                        THEN Max(minIdx, atPos - MAX_LEFT_SCAN)
                        ELSE minIdx
    IN Once(RightEnd(t, atPos), LAMBDA end :
       Once(LeftScan(t, atPos, end, effectiveMin, atPos), LAMBDA ls :
       Once(StartAfterScan(t, atPos, effectiveMin, ls), LAMBDA s :
           IF s.recoveryFails
           THEN Boundaries(atPos, atPos, FALSE, Min(ls.invalidCharPos + 1, len))
           ELSE IF s.start >= atPos
           THEN Boundaries(atPos, atPos, FALSE, Min(atPos + 1, len))
           ELSE Boundaries(s.start, end,
                           LeftBoundaryOk(t, s.start, effectiveMin, s.didRecovery)
                           /\ RightBoundaryOk(t, end),
                           0))))

findEmailBoundaries(t, atPos, minIdx) ==
    LET len == Len(t) IN
    IF atPos >= len THEN Boundaries(atPos, atPos, FALSE, atPos)
    ELSE IF atPos + 1 < len /\ At(t, atPos + 1) = ChLBracket
    THEN Boundaries(atPos, atPos, FALSE, atPos + 1)
    ELSE
    LET effectiveMin == IF atPos > MAX_LEFT_SCAN
                        THEN Max(minIdx, atPos - MAX_LEFT_SCAN)
                        ELSE minIdx
    IN Once(RightEnd(t, atPos), LAMBDA end :
       Once(LeftScan(t, atPos, end, effectiveMin, atPos), LAMBDA ls :
       Once(StartAfterScan(t, atPos, effectiveMin, ls), LAMBDA s :
           IF s.recoveryFails
           THEN Boundaries(atPos, atPos, FALSE, Min(ls.invalidCharPos + 1, len))
           ELSE IF s.start >= atPos
           THEN Boundaries(atPos, atPos, FALSE, Min(atPos + 1, len))
           ELSE Boundaries(s.start, end,
                           LeftBoundaryOk(t, s.start, effectiveMin, s.didRecovery)
                           /\ RightBoundaryOk(t, end),
                           0))))

(* std::memchr(data + pos, '@', len - pos): the first offset >= p holding '@' *)
RECURSIVE FindAtFrom(_, _)
FindAtFrom(t, p) ==
    IF p >= Len(t) THEN npos
    ELSE IF At(t, p) = ChAt THEN p
    ELSE FindAtFrom(t, p + 1)

(* the lookahead for (look = end; look < lookLimit; ++look) of extract *)
RECURSIVE foundNearbyAt(_, _, _)
foundNearbyAt(t, look, lookLimit) ==
    IF ~(look < lookLimit) THEN FALSE
    ELSE IF At(t, look) = ChAt THEN TRUE
    ELSE foundNearbyAt(t, look + 1, lookLimit)

(* text.data() + start, end - start: the bytes of [start, end) *)
Substring(t, start, end) == SubSeq(t, start + 1, end)

(* the locals of contains / extract as they stand before the scan loop *)
NewFrame ==
    [pos |-> 0, minScannedIndex |-> 0, lastConsumedEnd |-> 0, extractedCount |-> 0,
     iterations |-> 0, totalCharsScanned |-> 0, emails |-> <<>>, seen |-> {},
     spans |-> <<>>, running |-> TRUE, error |-> FALSE, matched |-> FALSE]

(* ResumeAfterMatch as it would be if extract resumed one byte behind the
   start of the match *)
ResumeAfterMatchBehindStart(t, b) == b.start + 1

(* where extract resumes after recording a match *)
ResumeAfterMatch(t, b) ==
    IF b.end < Len(t) /\ (isAtext(At(t, b.end)) \/ At(t, b.end) = ChDot)
       /\ foundNearbyAt(t, b.end, Min(b.end + NEARBY_AT_WINDOW, Len(t)))
    THEN b.end
    ELSE b.end

(* RecordMatch as it would be without the `inserted` test *)
RecordMatchNoDedup(t, f, b, atPos) ==
    LET m == Substring(t, b.start, b.end)
    IN [f EXCEPT !.seen = @ \cup {m},
                 !.emails = Append(@, m),
                 !.extractedCount = @ + 1,
                 !.minScannedIndex = Max(@, b.start),
                 !.lastConsumedEnd = Max(@, b.end),
                 !.spans = Append(@, [start |-> b.start, at |-> atPos, end |-> b.end]),
                 !.pos = ResumeAfterMatch(t, b)]

(* RecordMatch as it would be if the left scan of later candidates were
   floored at the end of the match instead of its start *)
RecordMatchFloorAtEnd(t, f, b, atPos) ==
    LET m == Substring(t, b.start, b.end)
        inserted == m \notin f.seen
    IN [f EXCEPT !.seen = @ \cup {m},
                 !.emails = IF inserted THEN Append(@, m) ELSE @,
                 !.extractedCount = IF inserted THEN @ + 1 ELSE @,
                 !.minScannedIndex = Max(@, b.end),
                 !.lastConsumedEnd = Max(@, b.end),
                 !.spans = Append(@, [start |-> b.start, at |-> atPos, end |-> b.end]),
                 !.pos = ResumeAfterMatch(t, b)]

(* RecordMatch as it would be if a new string were put at the front of the
   vector *)
RecordMatchAtFront(t, f, b, atPos) ==
    LET m == Substring(t, b.start, b.end)
        inserted == m \notin f.seen
    IN [f EXCEPT !.seen = @ \cup {m},
                 !.emails = IF inserted THEN <<m>> \o @ ELSE @,
                 !.extractedCount = IF inserted THEN @ + 1 ELSE @,
                 !.minScannedIndex = Max(@, b.start),
                 !.lastConsumedEnd = Max(@, b.end),
                 !.spans = Append(@, [start |-> b.start, at |-> atPos, end |-> b.end]),
                 !.pos = ResumeAfterMatch(t, b)]

(* extract, on a validated candidate: seen.emplace, emails.emplace_back when
   inserted, then the bookkeeping and the new scan position; spans keeps the
   range of every accepted candidate, in order *)
RecordMatch(t, f, b, atPos) ==
    LET m == Substring(t, b.start, b.end)
        inserted == m \notin f.seen
    IN [f EXCEPT !.seen = @ \cup {m},
                 !.emails = IF inserted THEN Append(@, m) ELSE @,
                 !.extractedCount = IF inserted THEN @ + 1 ELSE @,
                 !.minScannedIndex = Max(@, b.start),
                 !.lastConsumedEnd = Max(@, b.end),
                 !.spans = Append(@, [start |-> b.start, at |-> atPos, end |-> b.end]),
                 !.pos = ResumeAfterMatch(t, b)]

(* ExtractIter as it would be without the test of extractedCount *)
ExtractIterNoCountCap(t, f) ==
    LET len == Len(t) IN
    IF ~(f.pos < len) THEN [f EXCEPT !.running = FALSE]
    ELSE IF ~(f.iterations < MAX_SCAN_ITERATIONS)
    THEN [f EXCEPT !.running = FALSE, !.iterations = @ + 1]
    ELSE
    LET f1 == [f EXCEPT !.iterations = @ + 1]
        atPos == FindAtFrom(t, f.pos)
    IN
    IF atPos = npos THEN [f1 EXCEPT !.running = FALSE]
    ELSE IF atPos < 1 \/ atPos >= len - 3 THEN [f1 EXCEPT !.pos = atPos + 1]
    ELSE IF atPos < f1.lastConsumedEnd THEN [f1 EXCEPT !.pos = atPos + 1]
    ELSE
    Once(findEmailBoundaries(t, atPos, f1.minScannedIndex), LAMBDA b :
    LET f2 == [f1 EXCEPT !.totalCharsScanned = @ + (atPos - b.start) + (b.end - atPos)]
    IN
    IF f2.totalCharsScanned > MAX_TOTAL_CHARS_SCANNED
    THEN [f2 EXCEPT !.running = FALSE, !.error = TRUE]
    ELSE IF ~b.validBoundaries
    THEN [f2 EXCEPT !.pos = IF b.skipTo > 0 THEN b.skipTo ELSE atPos + 1]
    ELSE IF validateLocalPart(t, b.start, atPos, "SCAN")
            /\ validateDomainPart(t, atPos + 1, b.end)
    THEN IF b.start >= len \/ b.end > len \/ b.start >= b.end
         THEN [f2 EXCEPT !.pos = atPos + 1]
         ELSE RecordMatch(t, f2, b, atPos)
    ELSE [f2 EXCEPT !.pos = atPos + 1])

(* ExtractIter as it would be if the scanned-characters cap cleared the vector,
   as the catch blocks do *)
ExtractIterClearOnCap(t, f) ==
    LET len == Len(t) IN
    IF ~(f.pos < len) THEN [f EXCEPT !.running = FALSE]
    ELSE IF ~(f.iterations < MAX_SCAN_ITERATIONS)
    THEN [f EXCEPT !.running = FALSE, !.iterations = @ + 1]
    ELSE
    LET f1 == [f EXCEPT !.iterations = @ + 1]
        atPos == FindAtFrom(t, f.pos)
    IN
    IF f1.extractedCount >= MAX_EMAILS_EXTRACT THEN [f1 EXCEPT !.running = FALSE]
    ELSE IF atPos = npos THEN [f1 EXCEPT !.running = FALSE]
    ELSE IF atPos < 1 \/ atPos >= len - 3 THEN [f1 EXCEPT !.pos = atPos + 1]
    ELSE IF atPos < f1.lastConsumedEnd THEN [f1 EXCEPT !.pos = atPos + 1]
    ELSE
    Once(findEmailBoundaries(t, atPos, f1.minScannedIndex), LAMBDA b :
    LET f2 == [f1 EXCEPT !.totalCharsScanned = @ + (atPos - b.start) + (b.end - atPos)]
    IN
    IF f2.totalCharsScanned > MAX_TOTAL_CHARS_SCANNED
    THEN [f2 EXCEPT !.running = FALSE, !.error = TRUE, !.emails = <<>>]
    ELSE IF ~b.validBoundaries
    THEN [f2 EXCEPT !.pos = IF b.skipTo > 0 THEN b.skipTo ELSE atPos + 1]
    ELSE IF validateLocalPart(t, b.start, atPos, "SCAN")
            /\ validateDomainPart(t, atPos + 1, b.end)
    THEN IF b.start >= len \/ b.end > len \/ b.start >= b.end
         THEN [f2 EXCEPT !.pos = atPos + 1]
         ELSE RecordMatch(t, f2, b, atPos)
    ELSE [f2 EXCEPT !.pos = atPos + 1])

(* ExtractIter as it would be if two bytes behind the '@' were enough *)
ExtractIterWideWindow(t, f) ==
    LET len == Len(t) IN
    IF ~(f.pos < len) THEN [f EXCEPT !.running = FALSE]
    ELSE IF ~(f.iterations < MAX_SCAN_ITERATIONS)
    THEN [f EXCEPT !.running = FALSE, !.iterations = @ + 1]
    ELSE
    LET f1 == [f EXCEPT !.iterations = @ + 1]
        atPos == FindAtFrom(t, f.pos)
    IN
    IF f1.extractedCount >= MAX_EMAILS_EXTRACT THEN [f1 EXCEPT !.running = FALSE]
    ELSE IF atPos = npos THEN [f1 EXCEPT !.running = FALSE]
    ELSE IF atPos < 1 \/ atPos >= len - 2 THEN [f1 EXCEPT !.pos = atPos + 1]
    ELSE IF atPos < f1.lastConsumedEnd THEN [f1 EXCEPT !.pos = atPos + 1]
    ELSE
    Once(findEmailBoundaries(t, atPos, f1.minScannedIndex), LAMBDA b :
    LET f2 == [f1 EXCEPT !.totalCharsScanned = @ + (atPos - b.start) + (b.end - atPos)]
    IN
    IF f2.totalCharsScanned > MAX_TOTAL_CHARS_SCANNED
    THEN [f2 EXCEPT !.running = FALSE, !.error = TRUE]
    ELSE IF ~b.validBoundaries
    THEN [f2 EXCEPT !.pos = IF b.skipTo > 0 THEN b.skipTo ELSE atPos + 1]
    ELSE IF validateLocalPart(t, b.start, atPos, "SCAN")
            /\ validateDomainPart(t, atPos + 1, b.end)
    THEN IF b.start >= len \/ b.end > len \/ b.start >= b.end
         THEN [f2 EXCEPT !.pos = atPos + 1]
         ELSE RecordMatch(t, f2, b, atPos)
    ELSE [f2 EXCEPT !.pos = atPos + 1])

(* one evaluation of the while condition of extract and, when it holds, one
   pass through the loop body; running = FALSE once the loop is left *)
ExtractIter(t, f) ==
    LET len == Len(t) IN
    IF ~(f.pos < len) THEN [f EXCEPT !.running = FALSE]
    ELSE IF ~(f.iterations < MAX_SCAN_ITERATIONS)
    THEN [f EXCEPT !.running = FALSE, !.iterations = @ + 1]
    ELSE
    LET f1 == [f EXCEPT !.iterations = @ + 1]
        atPos == FindAtFrom(t, f.pos)
    IN
    IF f1.extractedCount >= MAX_EMAILS_EXTRACT THEN [f1 EXCEPT !.running = FALSE]
    ELSE IF atPos = npos THEN [f1 EXCEPT !.running = FALSE]
    ELSE IF atPos < 1 \/ atPos >= len - 3 THEN [f1 EXCEPT !.pos = atPos + 1]
    ELSE IF atPos < f1.lastConsumedEnd THEN [f1 EXCEPT !.pos = atPos + 1]
    ELSE
    Once(findEmailBoundaries(t, atPos, f1.minScannedIndex), LAMBDA b :
    LET f2 == [f1 EXCEPT !.totalCharsScanned = @ + (atPos - b.start) + (b.end - atPos)]
    IN
    IF f2.totalCharsScanned > MAX_TOTAL_CHARS_SCANNED
    THEN [f2 EXCEPT !.running = FALSE, !.error = TRUE]
    ELSE IF ~b.validBoundaries
    THEN [f2 EXCEPT !.pos = IF b.skipTo > 0 THEN b.skipTo ELSE atPos + 1]
    ELSE IF validateLocalPart(t, b.start, atPos, "SCAN")
            /\ validateDomainPart(t, atPos + 1, b.end)
    THEN IF b.start >= len \/ b.end > len \/ b.start >= b.end
         THEN [f2 EXCEPT !.pos = atPos + 1]
         ELSE RecordMatch(t, f2, b, atPos)
    ELSE [f2 EXCEPT !.pos = atPos + 1])

(* the same for contains, which returns true at the first validated candidate *)
ContainsIter(t, f) ==
    LET len == Len(t) IN
    IF ~(f.pos < len) THEN [f EXCEPT !.running = FALSE]
    ELSE
    LET atPos == FindAtFrom(t, f.pos) IN
    IF atPos = npos THEN [f EXCEPT !.running = FALSE]
    ELSE IF atPos < 1 \/ atPos >= len - 3 THEN [f EXCEPT !.pos = atPos + 1]
    ELSE IF atPos < f.lastConsumedEnd THEN [f EXCEPT !.pos = atPos + 1]
    ELSE
    Once(findEmailBoundaries(t, atPos, f.minScannedIndex), LAMBDA b :
    LET f2 == [f EXCEPT !.totalCharsScanned = @ + (atPos - b.start) + (b.end - atPos)]
    IN
    IF f2.totalCharsScanned > MAX_TOTAL_CHARS_SCANNED
    THEN [f2 EXCEPT !.running = FALSE, !.error = TRUE]
    ELSE IF ~b.validBoundaries
    THEN [f2 EXCEPT !.pos = IF b.skipTo > 0 THEN b.skipTo ELSE atPos + 1]
    ELSE IF validateLocalPart(t, b.start, atPos, "SCAN")
            /\ validateDomainPart(t, atPos + 1, b.end)
    THEN [f2 EXCEPT !.minScannedIndex = Max(@, b.start),
                    !.lastConsumedEnd = Max(@, b.end),
                    !.spans = Append(@, [start |-> b.start, at |-> atPos, end |-> b.end]),
                    !.running = FALSE, !.matched = TRUE]
    ELSE [f2 EXCEPT !.pos = atPos + 1])

(* RejectedAtEntry as it would be without the upper limit *)
RejectedAtEntryNoMax(t) == Len(t) < MIN_SCAN_LENGTH

(* the entry guards shared by contains and extract *)
RejectedAtEntry(t) == Len(t) > MAX_INPUT_SIZE \/ Len(t) < MIN_SCAN_LENGTH

(* text.data() == nullptr && len > 0 *)
NullBuffer(t, d) == d = "null" /\ Len(t) > 0

RECURSIVE ExtractRun(_, _)
ExtractRun(t, f) == IF f.running THEN ExtractRun(t, ExtractIter(t, f)) ELSE f

(* the vector a whole extract(t) call returns *)
extract(t) == IF RejectedAtEntry(t) THEN <<>> ELSE ExtractRun(t, NewFrame).emails

RECURSIVE ContainsRun(_, _)
ContainsRun(t, f) == IF f.running THEN ContainsRun(t, ContainsIter(t, f)) ELSE f

(* the boolean a whole contains(t) call returns *)
contains(t) == IF RejectedAtEntry(t) THEN FALSE ELSE ContainsRun(t, NewFrame).matched

-----------------------------------------------------------------------------
(* The scanner as its callers drive it (runTextScanningTests): contains(text),
   then extract(text), on one EmailScanner.                                  *)

ContainsEnter ==
    /\ pc = "idle"
    /\ scanCount' = scanCount + 1
    /\ IF RejectedAtEntry(text) \/ NullBuffer(text, data)
       THEN /\ errorCount' = errorCount + 1
            /\ found' = FALSE
            /\ pc' = "contained"
            /\ frame' = frame
       ELSE /\ frame' = NewFrame
            /\ pc' = "contains"
            /\ UNCHANGED <<errorCount, found>>
    /\ UNCHANGED <<text, data, threads, emails, result, validationCount, extractCount>>

ContainsStep ==
    /\ pc = "contains"
    /\ \E f \in {ContainsIter(text, frame)} :
       /\ frame' = f
       /\ errorCount' = IF f.error THEN errorCount + 1 ELSE errorCount
       /\ IF f.running
          THEN UNCHANGED <<pc, found>>
          ELSE pc' = "contained" /\ found' = f.matched
    /\ UNCHANGED <<text, data, threads, emails, result, validationCount, scanCount, extractCount>>

ExtractEnter ==
    /\ pc = "contained"
    /\ extractCount' = extractCount + 1
    /\ IF RejectedAtEntry(text) \/ NullBuffer(text, data)
       THEN /\ errorCount' = errorCount + 1
            /\ emails' = <<>>
            /\ pc' = "done"
            /\ frame' = frame
       ELSE /\ frame' = NewFrame
            /\ pc' = "extract"
            /\ UNCHANGED <<errorCount, emails>>
    /\ UNCHANGED <<text, data, threads, found, result, validationCount, scanCount>>

ExtractStep ==
    /\ pc = "extract"
    /\ \E f \in {ExtractIter(text, frame)} :
       /\ frame' = f
       /\ errorCount' = IF f.error THEN errorCount + 1 ELSE errorCount
       /\ IF f.running
          THEN UNCHANGED <<pc, emails>>
          ELSE pc' = "done" /\ emails' = f.emails
    /\ UNCHANGED <<text, data, threads, found, result, validationCount, scanCount, extractCount>>

(* ---- inputs of the scanner ---- *)
MaxChunks == 5

RECURSIVE Concat(_)
Concat(ss) == IF ss = <<>> THEN <<>> ELSE Head(ss) \o Concat(Tail(ss))

ChunkTexts(chunks, n) == {Concat(cs) : cs \in UNION {[1..k -> chunks] : k \in 0..n}}

(* "a@a.a", and the single bytes a @ . space # *)
ScanChunks ==
    { <<ChLowerA, ChAt, ChLowerA, ChDot, ChLowerA>>,
      <<ChLowerA>>, <<ChAt>>, <<ChDot>>, <<ChSpace>>, <<ChHash>> }

(* "a@a.a", and the single bytes a @ - ' space *)
QuoteChunks ==
    { <<ChLowerA, ChAt, ChLowerA, ChDot, ChLowerA>>,
      <<ChLowerA>>, <<ChAt>>, <<ChDash>>, <<ChApos>>, <<ChSpace>> }

(* "a@a.a", "A@a.a", space: the same address in two spellings *)
CaseChunks ==
    { <<ChLowerA, ChAt, ChLowerA, ChDot, ChLowerA>>,
      <<ChUpperA, ChAt, ChLowerA, ChDot, ChLowerA>>, <<ChSpace>> }

(* "a@a.a@a.a A@a.a": three addresses, all different *)
ThreeAddressesText ==
    <<ChLowerA, ChAt, ChLowerA, ChDot, ChLowerA, ChAt, ChLowerA, ChDot, ChLowerA, ChSpace,
      ChUpperA, ChAt, ChLowerA, ChDot, ChLowerA>>

(* "a@a a@a A@a.a": an address, the same address again, and another one *)
RepeatedAddressText ==
    <<ChLowerA, ChAt, ChLowerA, ChSpace, ChLowerA, ChAt, ChLowerA, ChSpace,
      ChUpperA, ChAt, ChLowerA, ChDot, ChLowerA>>

ScanTexts(n) ==
    ChunkTexts(ScanChunks, n) \cup ChunkTexts(QuoteChunks, n) \cup ChunkTexts(CaseChunks, n)
        \cup {ThreeAddressesText, RepeatedAddressText}

(* the scanner, the validator and their counters as constructed *)
Fresh ==
    /\ pc = "idle"
    /\ frame = NewFrame
    /\ found = FALSE
    /\ emails = <<>>
    /\ result = FALSE
    /\ validationCount = 0
    /\ scanCount = 0
    /\ extractCount = 0
    /\ errorCount = 0
    /\ threads = <<>>

(* as constructed, and handed a view of a real buffer *)
Idle == data = "buffer" /\ Fresh

Init == text \in ScanTexts(MaxChunks) /\ Idle

Next == ContainsEnter \/ ContainsStep \/ ExtractEnter \/ ExtractStep

Spec == Init /\ [][Next]_vars

(* ---- texts that hold address literals ---- *)
(* "a@a.a", and the single bytes a @ [ ] . *)
BracketChunks ==
    { <<ChLowerA, ChAt, ChLowerA, ChDot, ChLowerA>>,
      <<ChLowerA>>, <<ChAt>>, <<ChLBracket>>, <<ChRBracket>>, <<ChDot>> }

InitBrackets == text \in ChunkTexts(BracketChunks, MaxChunks) /\ Idle

SpecBrackets == InitBrackets /\ [][Next]_vars

(* ---- texts that hold double quotes ---- *)
(* "a@a.a", and the single bytes a @ " . space *)
DQuoteChunks ==
    { <<ChLowerA, ChAt, ChLowerA, ChDot, ChLowerA>>,
      <<ChLowerA>>, <<ChAt>>, <<ChDQuote>>, <<ChDot>>, <<ChSpace>> }

(* "a@a"@a.a : the text '"user@internal"@example.com' at the model's scale *)
QuotedAtText ==
    <<ChDQuote, ChLowerA, ChAt, ChLowerA, ChDQuote, ChAt, ChLowerA, ChDot, ChLowerA>>

(* the ranges of t that start with '"' *)
QuotedRanges(t) ==
    {r \in (0..(Len(t) - 1)) \X (1..Len(t)) : r[1] < r[2] /\ At(t, r[1]) = ChDQuote}

(* the scanner's call of the local-part validator, in SCAN mode, on a
   candidate range; the call's two offsets are kept in frame *)
ValidateLocalScanCall ==
    /\ pc = "idle"
    /\ \E r \in QuotedRanges(text) :
          /\ frame' = [start |-> r[1], end |-> r[2]]
          /\ result' = validateLocalPart(text, r[1], r[2], "SCAN")
    /\ pc' = "local"
    /\ UNCHANGED <<text, data, threads, found, emails, validationCount, scanCount,
                   extractCount, errorCount>>

InitQuotes == text \in (ChunkTexts(DQuoteChunks, MaxChunks) \cup {QuotedAtText}) /\ Idle

NextQuotes == Next \/ ValidateLocalScanCall

SpecQuotes == InitQuotes /\ [][NextQuotes]_vars

(* ---- views of every length around the limits, with and without a buffer ---- *)
MaxOver == 2

(* k spaces, "a@a.a", and spaces up to length n; cut to n bytes *)
Padded(k, n) ==
    SubSeq([i \in 1..k |-> ChSpace]
             \o <<ChLowerA, ChAt, ChLowerA, ChDot, ChLowerA>>
             \o [i \in 1..n |-> ChSpace],
           1, n)

EntryTexts(over) ==
    {Padded(k, n) : k \in 0..3, n \in 0..(MAX_INPUT_SIZE + over)}

InitEntry == text \in EntryTexts(MaxOver) /\ data \in {"buffer", "null"} /\ Fresh

SpecEntry == InitEntry /\ [][Next]_vars

(* ---- texts for the boundaries findEmailBoundaries draws ---- *)
MaxEdgeChunks == 4

(* "a@a.a", "a@a", and the single bytes a @ . - space # *)
TrimChunks ==
    { <<ChLowerA, ChAt, ChLowerA, ChDot, ChLowerA>>, <<ChLowerA, ChAt, ChLowerA>>,
      <<ChLowerA>>, <<ChAt>>, <<ChDot>>, <<ChDash>>, <<ChSpace>>, <<ChHash>> }

(* "a@a.a", "aaa", "aa", and the single bytes . space *)
LongChunks ==
    { <<ChLowerA, ChAt, ChLowerA, ChDot, ChLowerA>>, <<ChLowerA, ChLowerA, ChLowerA>>,
      <<ChLowerA, ChLowerA>>, <<ChDot>>, <<ChSpace>> }

(* "a@a.a", and the single bytes a ' ` = : space # *)
DelimiterChunks ==
    { <<ChLowerA, ChAt, ChLowerA, ChDot, ChLowerA>>,
      <<ChLowerA>>, <<ChApos>>, <<ChBacktick>>, <<ChEquals>>, <<ChColon>>, <<ChSpace>>,
      <<ChHash>> }

EdgeTexts(n) ==
    ChunkTexts(TrimChunks, n) \cup ChunkTexts(LongChunks, n) \cup ChunkTexts(DelimiterChunks, n)

InitEdges == text \in EdgeTexts(MaxEdgeChunks) /\ Idle

SpecEdges == InitEdges /\ [][Next]_vars

-----------------------------------------------------------------------------
(* Properties of the scanner, checked under Spec.                           *)

Distinct(seq) == \A i, j \in 1..Len(seq) : i # j => seq[i] # seq[j]

(* C1: once contains(text) and extract(text) have both returned, contains
   returned true exactly when extract returned a non-empty vector. *)
C1_ContainsIffExtract == pc = "done" => (found <=> emails # <<>>)

(* C2: the vector extract builds and returns never holds the same string
   twice, and every accepted candidate's bytes are in it exactly as they are
   in the text (so two spellings that differ in case are both kept). *)
C2_NoDuplicates ==
    /\ Distinct(frame.emails)
    /\ Distinct(emails)
    /\ pc \in {"extract", "done"} =>
          \A i \in 1..Len(frame.spans) :
          \E k \in 1..Len(frame.emails) :
              frame.emails[k] = Substring(text, frame.spans[i].start, frame.spans[i].end)

(* extract has returned after accepting two candidates with the same bytes *)
C2_Witness ==
    /\ pc = "done"
    /\ \E i, j \in 1..Len(frame.spans) :
          /\ i < j
          /\ Substring(text, frame.spans[i].start, frame.spans[i].end)
               = Substring(text, frame.spans[j].start, frame.spans[j].end)

(* C3 as claimed: the byte ranges of any two candidates accepted by one
   extract call are disjoint. *)
C3_SpansDisjoint ==
    \A i, j \in 1..Len(frame.spans) :
        i < j => frame.spans[i].end <= frame.spans[j].start

(* "a@a.a@a.a": the chained text 'text@user.com@domain.in' at the model's scale *)
ChainedText ==
    <<ChLowerA, ChAt, ChLowerA, ChDot, ChLowerA, ChAt, ChLowerA, ChDot, ChLowerA>>

(* C3 as amended: a later accepted candidate starts after the '@' of every
   earlier one and has its own '@' at or after the earlier one's end, so two
   ranges can share only domain bytes of the earlier match; and they do: on
   the chained text extract returns "a@a.a" and "a.a@a.a". *)
C3_SpansChained ==
    /\ \A i, j \in 1..Len(frame.spans) :
          i < j => /\ frame.spans[i].at < frame.spans[j].start
                   /\ frame.spans[i].end <= frame.spans[j].at
    /\ (pc = "done" /\ text = ChainedText)
          => emails = << SubSeq(ChainedText, 1, 5), SubSeq(ChainedText, 3, 9) >>

(* extract has returned with two accepted candidates whose ranges overlap *)
C3_Witness ==
    /\ pc = "done"
    /\ \E i, j \in 1..Len(frame.spans) :
          i < j /\ frame.spans[j].start < frame.spans[i].end

(* C4: every string extract(text) returned is returned, alone, by extract
   applied to that string. *)
C4_Idempotent ==
    pc = "done" => \A k \in 1..Len(emails) : extract(emails[k]) = <<emails[k]>>

-----------------------------------------------------------------------------
(* The validators as their callers drive them (runExactValidationTests and
   the validate functions): one call on one input.                          *)

IsValidCall ==
    /\ pc = "idle"
    /\ result' = isValid(text)
    /\ validationCount' = validationCount + 1
    /\ errorCount' = IF isValid(text) THEN errorCount ELSE errorCount + 1
    /\ pc' = "validated"
    /\ UNCHANGED <<text, data, threads, frame, found, emails, scanCount, extractCount>>

(* the validate functions are static and read text[start, end): the inputs
   below put the range between '[' and ']', as validateIPLiteral passes it *)
Body(t) == SubSeq(t, 2, Len(t) - 1)

Bracketed(body) == <<ChLBracket>> \o body \o <<ChRBracket>>

ValidateIPv4Call ==
    /\ pc = "idle"
    /\ result' = validateIPv4(text, 1, Len(text) - 1)
    /\ pc' = "ipv4"
    /\ UNCHANGED <<text, data, threads, frame, found, emails, validationCount, scanCount,
                   extractCount, errorCount>>

ValidateIPv6Call ==
    /\ pc = "idle"
    /\ result' = validateIPv6(text, 1, Len(text) - 1)
    /\ pc' = "ipv6"
    /\ UNCHANGED <<text, data, threads, frame, found, emails, validationCount, scanCount,
                   extractCount, errorCount>>

(* isValid passes the domain as [atPos + 1, len): the inputs below are
   "a@" followed by the domain *)
DomainOf(t) == SubSeq(t, 3, Len(t))

ValidateDomainCall ==
    /\ pc = "idle"
    /\ result' = validateDomainPart(text, 2, Len(text))
    /\ pc' = "domain"
    /\ UNCHANGED <<text, data, threads, frame, found, emails, validationCount, scanCount,
                   extractCount, errorCount>>

(* ---- inputs of isValid ---- *)
MaxAddrLen == 6

AddrBytes == {ChLowerA, ChAt, ChDQuote, ChBackslash, ChDot}

AddrTexts(maxLen) == UNION {[1..n -> AddrBytes] : n \in MIN_EMAIL_SIZE..maxLen}

MaxLiteralChunks == 5

(* "1", ".1", ":", "f", "IPv6:", "ipV6:" *)
LiteralChunks ==
    { <<Ch1>>, <<ChDot, Ch1>>, <<ChColon>>, <<ChLowerF>>,
      <<ChUpperI, ChUpperP, ChLowerV, Ch6, ChColon>>,
      <<ChLowerI, ChLowerP, ChUpperV, Ch6, ChColon>> }

(* "user@[" *)
UserAtBracket == <<117, 115, 101, 114, 64, 91>>

UserLiteral(interior) == UserAtBracket \o interior \o <<ChRBracket>>

(* "alice@[IPv6:::1]" *)
AliceTaggedLoopback == <<97, 108, 105, 99, 101, 64, 91, 73, 80, 118, 54, 58, 58, 58, 49, 93>>
(* "user@[IPv6::1]" *)
UserTaggedShort == <<117, 115, 101, 114, 64, 91, 73, 80, 118, 54, 58, 58, 49, 93>>
(* "user@[::1]" *)
UserUntaggedLoopback == <<117, 115, 101, 114, 64, 91, 58, 58, 49, 93>>
(* "user@[2001:db8::1]" *)
UserUntaggedDb8 == <<117, 115, 101, 114, 64, 91, 50, 48, 48, 49, 58, 100, 98, 56, 58, 58, 49, 93>>
(* "user@[::ffff:192.0.2.1]" *)
UserUntaggedMapped == <<117, 115, 101, 114, 64, 91, 58, 58, 102, 102, 102, 102, 58, 49, 57, 50, 46, 48, 46, 50, 46, 49, 93>>
(* "user@[]" *)
UserEmptyLiteral == <<117, 115, 101, 114, 64, 91, 93>>
(* "user@[1.1.1.1]" *)
UserIPv4Literal == <<117, 115, 101, 114, 64, 91, 49, 46, 49, 46, 49, 46, 49, 93>>

LiteralTexts(n) ==
    {UserLiteral(x) : x \in ChunkTexts(LiteralChunks, n)}
        \cup {AliceTaggedLoopback, UserTaggedShort, UserUntaggedLoopback,
              UserUntaggedDb8, UserUntaggedMapped, UserEmptyLiteral}

InitAddr == text \in (AddrTexts(MaxAddrLen) \cup LiteralTexts(MaxLiteralChunks)) /\ Idle

NextAddr == IsValidCall

SpecAddr == InitAddr /\ [][NextAddr]_vars

(* ---- inputs of validateIPv4 ---- *)
MaxOctetGroups == 5

RECURSIVE JoinWith(_, _)
JoinWith(parts, sep) ==
    IF parts = <<>> THEN <<>>
    ELSE IF Len(parts) = 1 THEN parts[1]
    ELSE parts[1] \o sep \o JoinWith(Tail(parts), sep)

(* "", "0", "01", "255", "256", "1a", "1000" *)
OctetGroups ==
    { <<>>, <<Ch0>>, <<Ch0, Ch1>>, <<Ch2, Ch5, Ch5>>,
      <<Ch2, Ch5, Ch6>>, <<Ch1, ChLowerA>>, <<Ch1, Ch0, Ch0, Ch0>> }

IPv4Texts(maxGroups) ==
    {Bracketed(JoinWith(gs, <<ChDot>>)) :
        gs \in UNION {[1..n -> OctetGroups] : n \in 0..maxGroups}}

InitIPv4 == text \in IPv4Texts(MaxOctetGroups) /\ Idle

NextIPv4 == ValidateIPv4Call

SpecIPv4 == InitIPv4 /\ [][NextIPv4]_vars

(* ---- the digit loop of validateIPv4, one digit at a time ----
   int is 32 bits wide.  octet * 10 + digit is defined when its value is an
   int; otherwise the signed overflow is undefined behaviour, and the
   accumulator may be left holding any int.                                 *)
INT_MIN == -INT_MAX - 1

Representable(octet, digit) ==
    /\ \/ octet < INT_MAX \div 10
       \/ octet = INT_MAX \div 10 /\ digit <= INT_MAX % 10
    /\ \/ octet > -(INT_MAX \div 10) - 1
       \/ octet = -(INT_MAX \div 10) - 1 /\ digit >= 2

(* values an overflowed accumulator can be left with: the extremes, and
   small values that would pass the test octet > 255 *)
UndefinedInt == {INT_MIN, -1, 0, 255, 256, INT_MAX}

IntMulAdd(octet, digit) ==
    IF Representable(octet, digit) THEN {octet * 10 + digit} ELSE UndefinedInt

OctetLocals(kind, j, octet, digitCount, overflowed) ==
    [kind |-> kind, j |-> j, octet |-> octet, digitCount |-> digitCount,
     overflowed |-> overflowed]

(* ParseOctetIter as it would be without the test against INT_MAX *)
ParseOctetIterNoGuard(t, j, i, groupLen, f) ==
    IF ~isDigit(At(t, j)) THEN {[f EXCEPT !.kind = "return"]}
    ELSE IF f.digitCount = 0 /\ At(t, j) = Ch0 /\ groupLen > 1
    THEN {[f EXCEPT !.kind = "return"]}
    ELSE LET digit == At(t, j) - Ch0 IN
         {OctetLocals("continue", j + 1, v, f.digitCount + 1,
                      f.overflowed \/ ~Representable(f.octet, digit)) :
             v \in IntMulAdd(f.octet, digit)}

(* one pass through the body of for (j = numStart; j < i; ++j): the locals
   it can leave behind; kind = "return" where the source returns false *)
ParseOctetIter(t, j, i, groupLen, f) ==
    IF ~isDigit(At(t, j)) THEN {[f EXCEPT !.kind = "return"]}
    ELSE IF f.digitCount = 0 /\ At(t, j) = Ch0 /\ groupLen > 1
    THEN {[f EXCEPT !.kind = "return"]}
    ELSE LET digit == At(t, j) - Ch0 IN
         IF f.octet > (INT_MAX - digit) \div 10 THEN {[f EXCEPT !.kind = "return"]}
         ELSE {OctetLocals("continue", j + 1, v, f.digitCount + 1,
                           f.overflowed \/ ~Representable(f.octet, digit)) :
                  v \in IntMulAdd(f.octet, digit)}

(* text is one group [numStart, i) = [0, Len(text)) *)
ParseOctetEnter ==
    /\ pc = "idle"
    /\ IF Len(text) = 0
       THEN pc' = "octetdone" /\ result' = FALSE /\ frame' = frame
       ELSE /\ pc' = "octet"
            /\ frame' = OctetLocals("continue", 0, 0, 0, FALSE)
            /\ UNCHANGED result
    /\ UNCHANGED <<text, data, threads, found, emails, validationCount, scanCount,
                   extractCount, errorCount>>

ParseOctetStep ==
    /\ pc = "octet"
    /\ IF frame.j < Len(text)
       THEN \E f \in ParseOctetIter(text, frame.j, Len(text), Len(text), frame) :
               /\ frame' = f
               /\ IF f.kind = "return"
                  THEN pc' = "octetdone" /\ result' = FALSE
                  ELSE UNCHANGED <<pc, result>>
       ELSE /\ pc' = "octetdone"
            /\ result' = ~(frame.octet > 255)
            /\ frame' = frame
    /\ UNCHANGED <<text, data, threads, found, emails, validationCount, scanCount,
                   extractCount, errorCount>>

(* the digits of INT_MAX, "4294967296", and a run of 300 '9' *)
IntMaxDigits == <<50, 49, 52, 55, 52, 56, 51, 54, 52, 55>>

TwoPow32Digits == <<52, 50, 57, 52, 57, 54, 55, 50, 57, 54>>

LongDigitRun == [k \in 1..300 |-> Ch9]

MaxTailDigits == 2

(* a prefix of INT_MAX's digits, one more digit, and a tail of '9's *)
DigitGroups(maxTail) ==
    {SubSeq(IntMaxDigits, 1, k) \o <<Ch0 + d>> \o [x \in 1..n |-> Ch9] :
        k \in 0..Len(IntMaxDigits), d \in 0..9, n \in 0..maxTail}
    \cup {<<>>, TwoPow32Digits, LongDigitRun}

InitOctet == text \in DigitGroups(MaxTailDigits) /\ Idle

NextOctet == ParseOctetEnter \/ ParseOctetStep

SpecOctet == InitOctet /\ [][NextOctet]_vars

(* ---- inputs of validateIPv6 ---- *)
MaxHextets == 9

(* the k-th hextet written: "1" or "fa09", and "12345" for an overlong one *)
Hextet(k, long) ==
    IF long THEN <<Ch1, Ch2, Ch2, Ch5, Ch5>>
    ELSE IF k % 2 = 1 THEN <<Ch1>>
    ELSE <<ChLowerF, ChLowerA, Ch0, Ch9>>

(* "9.255.0.1" and "9.256.0.1" *)
GoodIPv4Tail == <<Ch9, ChDot, Ch2, Ch5, Ch5, ChDot, Ch0, ChDot, Ch1>>
BadIPv4Tail == <<Ch9, ChDot, Ch2, Ch5, Ch6, ChDot, Ch0, ChDot, Ch1>>

(* An address by its shape: runs[1], runs[2], runs[3] hextets separated by
   comp '::' (runs after the last '::' are then empty), a dotted tail, and
   whether the first hextet is overlong. *)
IPv6Shapes ==
    { sh \in [runs : [1..3 -> 0..MaxHextets], comp : 0..2,
              tail : {"none", "good", "bad"}, long : BOOLEAN] :
        /\ sh.runs[1] + sh.runs[2] + sh.runs[3] <= MaxHextets
        /\ sh.comp < 2 => sh.runs[3] = 0
        /\ sh.comp < 1 => sh.runs[2] = 0
        /\ sh.comp = 2 => sh.runs[1] <= 1 /\ sh.runs[2] \in 1..2 /\ sh.runs[3] <= 1
        /\ sh.long => sh.runs[1] > 0 }

Run(sh, r) ==
    LET base == IF r = 1 THEN 0 ELSE IF r = 2 THEN sh.runs[1] ELSE sh.runs[1] + sh.runs[2]
        last == sh.comp + 1
        hs == [k \in 1..sh.runs[r] |-> Hextet(base + k, sh.long /\ r = 1 /\ k = 1)]
        tl == IF r = last /\ sh.tail = "good" THEN <<GoodIPv4Tail>>
              ELSE IF r = last /\ sh.tail = "bad" THEN <<BadIPv4Tail>>
              ELSE <<>>
    IN JoinWith(hs \o tl, <<ChColon>>)

Render(sh) ==
    JoinWith([r \in 1..(sh.comp + 1) |-> Run(sh, r)], <<ChColon, ChColon>>)

IPv6Texts == {Bracketed(Render(sh)) : sh \in IPv6Shapes}

InitIPv6 == text \in IPv6Texts /\ Idle

NextIPv6 == ValidateIPv6Call

SpecIPv6 == InitIPv6 /\ [][NextIPv6]_vars

(* ---- inputs of validateDomainPart ---- *)
MaxLabels == 4

Rep(c, n) == [k \in 1..n |-> c]

(* "", "a", "1", "Z", "-", "-a", "a-", "a-a", "_", and a label of the
   longest length allowed and one byte longer *)
DomainLabels ==
    { <<>>, <<ChLowerA>>, <<Ch1>>, <<ChUpperZ>>, <<ChDash>>, <<ChDash, ChLowerA>>,
      <<ChLowerA, ChDash>>, <<ChLowerA, ChDash, ChLowerA>>, <<ChUnderscore>>,
      Rep(ChLowerA, MAX_LABEL_LENGTH), Rep(ChLowerA, MAX_LABEL_LENGTH + 1) }

DomainTexts(maxLabels) ==
    {<<ChLowerA, ChAt>> \o JoinWith(ls, <<ChDot>>) :
        ls \in UNION {[1..n -> DomainLabels] : n \in 0..maxLabels}}

InitDomain == text \in DomainTexts(MaxLabels) /\ Idle

NextDomain == ValidateDomainCall

SpecDomain == InitDomain /\ [][NextDomain]_vars

(* ---- inputs of LocalPartValidator::validate ---- *)
(* a . ! space *)
DotAtomBytes == {ChLowerA, ChDot, ChBang, ChSpace}

(* a \ " and a byte above 127 *)
QuotedBytes == {ChLowerA, ChBackslash, ChDQuote, 200}

(* interiors holding a tab, a space, a control byte, DEL, and an escaped
   control byte *)
QuotedExtras ==
    { <<ChTab>>, <<ChSpace>>, <<31>>, <<127>>, <<ChBackslash, 31>>,
      <<ChLowerA, ChTab, ChSpace>> }

(* unquoted texts, and quoted ones: '"', an interior, and a closing '"' or not *)
LocalTexts(maxLen) ==
    UNION {[1..n -> DotAtomBytes] : n \in 0..maxLen}
    \cup {<<ChDQuote>> \o x \o c :
            x \in UNION {[1..n -> QuotedBytes] : n \in 0..maxLen} \cup QuotedExtras,
            c \in {<<>>, <<ChDQuote>>}}

(* the ranges validate is called with: any pair of offsets up to one past the
   end for an unquoted text, the whole text or one byte less or more for a
   quoted one *)
LocalRanges(t) ==
    IF t # <<>> /\ t[1] = ChDQuote
    THEN {0} \X ((Len(t) - 1)..(Len(t) + 1))
    ELSE (0..(Len(t) + 1)) \X (0..(Len(t) + 1))

MaxLocalLen == 6

(* validate is static and reads text[start, end): the call's two offsets are
   kept in frame *)
ValidateLocalCall ==
    /\ pc = "idle"
    /\ \E r \in LocalRanges(text) :
          /\ frame' = [start |-> r[1], end |-> r[2]]
          /\ result' = validateLocalPart(text, r[1], r[2], "EXACT")
    /\ pc' = "local"
    /\ UNCHANGED <<text, data, threads, found, emails, validationCount, scanCount,
                   extractCount, errorCount>>

InitLocal == text \in LocalTexts(MaxLocalLen) /\ Idle

NextLocal == ValidateLocalCall

SpecLocal == InitLocal /\ [][NextLocal]_vars

(* ---- the classifier, asked about one byte ---- *)
IsAtextCall ==
    /\ pc = "idle"
    /\ result' = isAtext(At(text, 0))
    /\ pc' = "classified"
    /\ UNCHANGED <<text, data, threads, frame, found, emails, validationCount, scanCount,
                   extractCount, errorCount>>

InitClassify == text \in {<<b>> : b \in 0..255} /\ Idle

NextClassify == IsAtextCall

SpecClassify == InitClassify /\ [][NextClassify]_vars

(* ---- validateIPv6, one loop iteration at a time ---- *)
ValidateIPv6Enter ==
    /\ pc = "idle"
    /\ \E r \in {IPv6Start(text, 1, Len(text) - 1)} :
          /\ frame' = r
          /\ IF r.kind = "continue"
             THEN pc' = "ipv6loop" /\ UNCHANGED result
             ELSE pc' = "ipv6" /\ result' = IPv6Value(r)
    /\ UNCHANGED <<text, data, threads, found, emails, validationCount, scanCount,
                   extractCount, errorCount>>

ValidateIPv6Step ==
    /\ pc = "ipv6loop"
    /\ \E r \in {IPv6Iter(text, Len(text) - 1, frame.pos, frame.segmentCount,
                          frame.hasCompression, frame.iterations)} :
          /\ frame' = r
          /\ IF r.kind = "continue"
             THEN UNCHANGED <<pc, result>>
             ELSE pc' = "ipv6" /\ result' = IPv6Value(r)
    /\ UNCHANGED <<text, data, threads, found, emails, validationCount, scanCount,
                   extractCount, errorCount>>

(* the loops of contains, extract and validateIPv6, each stepped one
   iteration at a time; a call that has begun runs on until it returns *)
MaxLoopChunks == 4

InitLoops == text \in (ChunkTexts(ScanChunks, MaxLoopChunks) \cup IPv6Texts) /\ Idle

NextLoops == Next \/ ValidateIPv6Enter \/ ValidateIPv6Step

SpecLoops == InitLoops /\ [][NextLoops]_vars /\ WF_vars(NextLoops)

(* ---- isValid called from several threads on one EmailValidator ----
   Each thread owns its email; the only state the calls share is stats_,
   whose counters are std::atomic<uint64_t>.  A thread's call is three
   steps: recordValidation, the body (which touches no shared state), and,
   when the body fails, recordError before the return.                      *)
MaxThreads == 3

(* counter.store(arg): a plain store in place of the read-modify-write *)
fetch_add_store(counter, arg) == arg

(* std::atomic<uint64_t>::fetch_add(arg): one indivisible read-modify-write
   (the counters here stay far below 2^64, where the addition would wrap) *)
fetch_add(counter, arg) == counter + arg

recordValidation(counter) == fetch_add(counter, 1)

recordError(counter) == fetch_add(counter, 1)

ThreadCall(email) == [pc |-> "ready", email |-> email, value |-> FALSE]

IsValidEnter(i) ==
    /\ threads[i].pc = "ready"
    /\ validationCount' = recordValidation(validationCount)
    /\ threads' = [threads EXCEPT ![i].pc = "entered"]
    /\ UNCHANGED <<text, data, pc, frame, found, emails, result, scanCount,
                   extractCount, errorCount>>

IsValidBody(i) ==
    /\ threads[i].pc = "entered"
    /\ \E v \in {isValid(threads[i].email)} :
       threads' = [threads EXCEPT ![i].value = v,
                                  ![i].pc = IF v THEN "returned" ELSE "failed"]
    /\ UNCHANGED <<text, data, pc, frame, found, emails, result, validationCount,
                   scanCount, extractCount, errorCount>>

IsValidRecordError(i) ==
    /\ threads[i].pc = "failed"
    /\ errorCount' = recordError(errorCount)
    /\ threads' = [threads EXCEPT ![i].pc = "returned"]
    /\ UNCHANGED <<text, data, pc, frame, found, emails, result, validationCount,
                   scanCount, extractCount>>

ThreadEnters == \E i \in DOMAIN threads : IsValidEnter(i)

ThreadRuns == \E i \in DOMAIN threads : IsValidBody(i)

ThreadRecordsError == \E i \in DOMAIN threads : IsValidRecordError(i)

(* "a@a.a", "a@a.", "a@@a.a", "aaaaa", "a a@a.a" *)
ThreadEmails ==
    { <<ChLowerA, ChAt, ChLowerA, ChDot, ChLowerA>>,
      <<ChLowerA, ChAt, ChLowerA, ChDot>>,
      <<ChLowerA, ChAt, ChAt, ChLowerA, ChDot, ChLowerA>>,
      <<ChLowerA, ChLowerA, ChLowerA, ChLowerA, ChLowerA>>,
      <<ChLowerA, ChDot, ChLowerA, ChAt, ChLowerA, ChDot, ChLowerA>> }

ThreadSets(n) == UNION {[1..k -> {ThreadCall(e) : e \in ThreadEmails}] : k \in 1..n}

InitThreads ==
    /\ text = <<>>
    /\ data = "buffer"
    /\ pc = "idle"
    /\ frame = NewFrame
    /\ found = FALSE
    /\ emails = <<>>
    /\ result = FALSE
    /\ validationCount = 0
    /\ scanCount = 0
    /\ extractCount = 0
    /\ errorCount = 0
    /\ threads \in ThreadSets(MaxThreads)

NextThreads == ThreadEnters \/ ThreadRuns \/ ThreadRecordsError

SpecThreads == InitThreads /\ [][NextThreads]_vars

-----------------------------------------------------------------------------
(* Properties of the validators.                                            *)

(* the offsets (from 1) of the '@' bytes of s outside a quoted region: the
   quote state toggles at each unescaped '"', and a '\' escapes the next
   byte only inside quotes *)
RECURSIVE UnquotedAts(_, _, _, _)
UnquotedAts(s, i, inQuotes, escaped) ==
    IF i > Len(s) THEN {}
    ELSE IF escaped THEN UnquotedAts(s, i + 1, inQuotes, FALSE)
    ELSE IF s[i] = 92 /\ inQuotes THEN UnquotedAts(s, i + 1, inQuotes, TRUE)
    ELSE IF s[i] = 34 THEN UnquotedAts(s, i + 1, ~inQuotes, FALSE)
    ELSE (IF s[i] = 64 /\ ~inQuotes THEN {i} ELSE {})
             \cup UnquotedAts(s, i + 1, inQuotes, FALSE)

(* C5: when isValid has returned true, its input holds exactly one '@'
   outside a quoted region, and that '@' is neither the first nor the last
   byte. Checked under SpecAddr. *)
C5_OneUnquotedAt ==
    (pc = "validated" /\ result) =>
        \E i \in 2..(Len(text) - 1) : UnquotedAts(text, 1, FALSE, FALSE) = {i}

(* isValid has returned true on an input that also holds a quoted '@' *)
C5_Witness ==
    /\ pc = "validated"
    /\ result
    /\ \E i, j \in 1..Len(text) : i < j /\ text[i] = 64 /\ text[j] = 64

(* the groups of s between its '.' bytes *)
RECURSIVE SplitDot(_, _, _)
SplitDot(s, i, cur) ==
    IF i > Len(s) THEN <<cur>>
    ELSE IF s[i] = 46 THEN <<cur>> \o SplitDot(s, i + 1, <<>>)
    ELSE SplitDot(s, i + 1, Append(cur, s[i]))

RECURSIVE DecimalValue(_)
DecimalValue(g) ==
    IF g = <<>> THEN 0
    ELSE 10 * DecimalValue(SubSeq(g, 1, Len(g) - 1)) + (g[Len(g)] - 48)

OctetRef(g) ==
    /\ Len(g) \in 1..3
    /\ \A k \in 1..Len(g) : g[k] \in 48..57
    /\ DecimalValue(g) <= 255
    /\ Len(g) > 1 => g[1] # 48

IPv4Ref(s) ==
    LET gs == SplitDot(s, 1, <<>>)
    IN Len(gs) = 4 /\ \A k \in 1..4 : OctetRef(gs[k])

(* C6: validateIPv4 returns true exactly when the range is four groups
   separated by single '.', each 1 to 3 decimal digits of value 0..255 with
   no leading '0' unless the group is "0". Checked under SpecIPv4. *)
C6_IPv4Grammar == pc = "ipv4" => (result <=> IPv4Ref(Body(text)))

(* validateIPv4 has accepted an address with a group "255" and a group "0" *)
C6_Witness ==
    /\ pc = "ipv4"
    /\ result
    /\ LET gs == SplitDot(Body(text), 1, <<>>)
       IN \E i, j \in 1..Len(gs) : gs[i] = <<50, 53, 53>> /\ gs[j] = <<48>>

(* the groups an address of shape sh has: a good dotted tail counts as two *)
GroupCount(sh) ==
    sh.runs[1] + sh.runs[2] + sh.runs[3] + (IF sh.tail = "good" THEN 2 ELSE 0)

IPv6Expected(sh) ==
    /\ ~sh.long
    /\ sh.tail # "bad"
    /\ \/ sh.comp = 0 /\ GroupCount(sh) = 8
       \/ sh.comp = 1 /\ GroupCount(sh) <= 7

(* C7: validateIPv6 returns true on an address made of hextets, '::' and an
   optional dotted tail exactly when no group has more than 4 hex digits,
   the tail (if any) is a valid IPv4 address, and there are 8 groups and no
   '::' or at most 7 groups and one '::', the tail counting as two groups.
   Checked under SpecIPv6. *)
C7_IPv6Groups ==
    pc = "ipv6" =>
        \A sh \in IPv6Shapes :
            text = Bracketed(Render(sh)) => (result <=> IPv6Expected(sh))

(* validateIPv6 has accepted 6 hextets followed by an IPv4 tail, no '::' *)
C7_Witness ==
    /\ pc = "ipv6"
    /\ result
    /\ text = Bracketed(Render([runs |-> <<6, 0, 0>>, comp |-> 0,
                                tail |-> "good", long |-> FALSE]))

(* C8: isValid accepts "alice@[IPv6:::1]" (the tag, then an address that
   begins with '::') and "user@[IPv6::1]" (the tag's colon re-used).
   Checked under SpecAddr. *)
C8_TaggedCompressedAccepted ==
    (pc = "validated" /\ text \in {AliceTaggedLoopback, UserTaggedShort}) => result

IsUserLiteral(t) ==
    /\ Len(t) >= 7
    /\ SubSeq(t, 1, 6) = UserAtBracket
    /\ t[Len(t)] = 93

Interior(t) == SubSeq(t, 7, Len(t) - 1)

TaggedRef(x) ==
    /\ Len(x) >= 5
    /\ x[1] \in {73, 105}
    /\ x[2] \in {80, 112}
    /\ x[3] \in {86, 118}
    /\ x[4] = 54
    /\ x[5] = 58

(* C9: when isValid has returned true on "user@[" interior "]" and the
   interior does not start with the tag "IPv6:" in any case, the interior is
   a valid IPv4 address; "[::1]", "[2001:db8::1]", "[::ffff:192.0.2.1]" and
   "[]" are rejected. Checked under SpecAddr. *)
C9_UntaggedOnlyIPv4 ==
    pc = "validated" =>
        /\ (IsUserLiteral(text) /\ ~TaggedRef(Interior(text)) /\ result)
              => IPv4Ref(Interior(text))
        /\ text \in {UserUntaggedLoopback, UserUntaggedDb8, UserUntaggedMapped,
                     UserEmptyLiteral} => ~result

(* isValid has accepted the untagged literal "user@[1.1.1.1]" *)
C9_Witness == pc = "validated" /\ result /\ text = UserIPv4Literal

LabelRef(l) ==
    /\ Len(l) \in 1..MAX_LABEL_LENGTH
    /\ \A k \in 1..Len(l) : l[k] \in (48..57) \cup (65..90) \cup (97..122) \cup {45}
    /\ l[1] # 45
    /\ l[Len(l)] # 45

DomainRef(d) ==
    LET ls == SplitDot(d, 1, <<>>)
    IN /\ Len(d) \in 1..MAX_DOMAIN_PART
       /\ \A k \in 1..Len(ls) : LabelRef(ls[k])
       /\ Len(ls) >= 2 => \A k \in 1..Len(ls[Len(ls)]) : ls[Len(ls)][k] # 45

(* C10: on a domain range that does not start with '[', validateDomainPart
   returns true exactly when the range is 1 to MAX_DOMAIN_PART bytes and
   splits on '.' into labels of 1 to MAX_LABEL_LENGTH bytes, each of letters,
   digits and '-', none starting or ending with '-', the last of letters and
   digits only when there are two or more. Checked under SpecDomain. *)
C10_DomainGrammar ==
    (pc = "domain" /\ (DomainOf(text) = <<>> \/ DomainOf(text)[1] # 91)) =>
        (result <=> DomainRef(DomainOf(text)))

(* validateDomainPart has accepted a domain of one label, longer than a byte *)
C10_Witness ==
    /\ pc = "domain"
    /\ result
    /\ Len(DomainOf(text)) > 1
    /\ \A k \in 1..Len(DomainOf(text)) : DomainOf(text)[k] # 46

-----------------------------------------------------------------------------
(* Properties of the local-part validator, checked under SpecLocal.         *)

(* the atext bytes as RFC 5322 lists them: letters, digits and
   ! # $ % & ' * + - / = ? ^ _ ` { | } ~ *)
AtextSymbols == {33, 35, 36, 37, 38, 39, 42, 43, 45, 47, 61, 63, 94, 95, 96, 123, 124, 125, 126}

AtextRef(b) ==
    \/ b \in 65..90
    \/ b \in 97..122
    \/ b \in 48..57
    \/ b \in AtextSymbols

(* the range [start, end) lies inside t and is not empty *)
RangeOk(t, start, end) == start < end /\ end <= Len(t)

DotAtomRef(s) ==
    /\ Len(s) >= 1
    /\ Len(s) <= MAX_LOCAL_PART
    /\ s[1] # 46
    /\ s[Len(s)] # 46
    /\ \A i \in 1..(Len(s) - 1) : ~(s[i] = 46 /\ s[i + 1] = 46)
    /\ \A i \in 1..Len(s) : s[i] # 46 => AtextRef(s[i])

(* C11: in EXACT mode, on a range that does not start with '"', validate
   returns true exactly when the range lies inside the text, is 1 to
   MAX_LOCAL_PART bytes long, neither starts nor ends with '.', holds no two
   consecutive '.', and every other byte is atext; so it returns false when
   start >= end or end > length(text). *)
C11_DotAtomGrammar ==
    (pc = "local"
     /\ ~(RangeOk(text, frame.start, frame.end) /\ At(text, frame.start) = ChDQuote))
    => (result <=> /\ RangeOk(text, frame.start, frame.end)
                   /\ DotAtomRef(Substring(text, frame.start, frame.end)))

(* validate accepted a dotted local part of the longest length allowed *)
C11_Witness ==
    /\ pc = "local"
    /\ result
    /\ frame.end - frame.start = MAX_LOCAL_PART
    /\ \E i \in frame.start..(frame.end - 1) : At(text, i) = ChDot

(* the interior of a quoted string: a sequence of items, each a backslash
   followed by one byte <= 127, or one byte that is space, tab or printable
   ASCII other than '\' and '"' *)
RECURSIVE QuotedItemsRef(_)
QuotedItemsRef(s) ==
    IF s = <<>> THEN TRUE
    ELSE IF s[1] = 92 THEN Len(s) >= 2 /\ s[2] <= 127 /\ QuotedItemsRef(SubSeq(s, 3, Len(s)))
    ELSE /\ s[1] = 32 \/ s[1] = 9 \/ (s[1] \in 33..126 /\ s[1] # 34)
         /\ QuotedItemsRef(Tail(s))

QuotedRef(s) ==
    /\ Len(s) >= 3
    /\ Len(s) <= MAX_LOCAL_PART + 2
    /\ s[Len(s)] = 34
    /\ QuotedItemsRef(SubSeq(s, 2, Len(s) - 1))

(* C12: in EXACT mode, on a range inside the text that starts with '"',
   validate returns true exactly when the range is 3 to MAX_LOCAL_PART + 2
   bytes long, ends with '"', and its interior is a sequence of escaped bytes
   <= 127 and unescaped space, tab or printable bytes other than '\' and '"'. *)
C12_QuotedGrammar ==
    (pc = "local" /\ RangeOk(text, frame.start, frame.end)
     /\ At(text, frame.start) = ChDQuote)
    => (result <=> QuotedRef(Substring(text, frame.start, frame.end)))

(* validate accepted a quoted local part that holds an escaped '"' *)
C12_Witness ==
    /\ pc = "local"
    /\ result
    /\ At(text, frame.start) = ChDQuote
    /\ \E i \in (frame.start + 1)..(frame.end - 3) :
          At(text, i) = ChBackslash /\ At(text, i + 1) = ChDQuote

-----------------------------------------------------------------------------
(* Properties of the scanner on texts that hold address literals, checked
   under SpecBrackets.                                                      *)

(* every '@' of t that has a next byte is followed by '[' *)
OnlyLiteralCandidates(t) ==
    \A i \in 0..(Len(t) - 2) : At(t, i) = ChAt => At(t, i + 1) = ChLBracket

HasByte(s, b) == \E i \in 1..Len(s) : s[i] = b

(* C13: no accepted candidate has '[' right after its '@', and no string
   extract returns holds '[' or ']'; on a text whose every '@' is followed by
   '[' no boundary search scans a byte, contains returns false and extract
   returns nothing. *)
C13_NoAddressLiteral ==
    /\ \A i \in 1..Len(frame.spans) : At(text, frame.spans[i].at + 1) # ChLBracket
    /\ \A k \in 1..Len(emails) :
          ~HasByte(emails[k], ChLBracket) /\ ~HasByte(emails[k], ChRBracket)
    /\ OnlyLiteralCandidates(text) =>
          /\ frame.totalCharsScanned = 0
          /\ found = FALSE
          /\ emails = <<>>
          /\ frame.spans = <<>>

(* extract has returned on a text where an '@' that the scan loop hands to the
   boundary search is followed by '[', after a local part and with a closed
   literal behind it *)
C13_Witness ==
    /\ pc = "done"
    /\ OnlyLiteralCandidates(text)
    /\ \E i \in 1..(Len(text) - 4) :
          /\ At(text, i) = ChAt
          /\ At(text, i - 1) = ChLowerA
          /\ At(text, Len(text) - 1) = ChRBracket

-----------------------------------------------------------------------------
(* Properties of the scanner on texts that hold double quotes, checked under
   SpecQuotes.                                                              *)

(* C14: the SCAN-mode validator returns false on every range whose first byte
   is '"', and no candidate contains or extract accepts, and no string extract
   returns, holds a '"'. *)
C14_NoQuotedLocalPart ==
    /\ pc = "local" => ~result
    /\ \A k \in 1..Len(emails) : ~HasByte(emails[k], ChDQuote)
    /\ pc # "local" =>
          \A i \in 1..Len(frame.spans) :
              ~HasByte(Substring(text, frame.spans[i].start, frame.spans[i].end), ChDQuote)

(* the SCAN-mode validator has returned false on a range that is a
   well-formed quoted string *)
C14_Witness ==
    /\ pc = "local"
    /\ ~result
    /\ QuotedRef(Substring(text, frame.start, frame.end))

(* C15: on the quoted address whose local part holds an '@', contains returns
   true and extract returns one string, the whole text. *)
C15_QuotedAddressExtracted ==
    /\ (pc \in {"contained", "extract", "done"} /\ text = QuotedAtText) => found
    /\ (pc = "done" /\ text = QuotedAtText) => emails = <<QuotedAtText>>

-----------------------------------------------------------------------------
(* Properties of the entry guards, checked under SpecEntry.                 *)

(* C16: on a view shorter than MIN_SCAN_LENGTH, longer than MAX_INPUT_SIZE, or
   with a null handle and a nonzero length, neither call enters its scan loop
   (no '@' is searched for, no boundary search runs and the locals stay as
   they were), contains returns false and extract returns nothing. *)
C16_RejectedAtEntry ==
    (\/ Len(text) < MIN_SCAN_LENGTH
     \/ Len(text) > MAX_INPUT_SIZE
     \/ (data = "null" /\ Len(text) > 0))
    => /\ pc \notin {"contains", "extract"}
       /\ frame = NewFrame
       /\ found = FALSE
       /\ emails = <<>>

(* both calls have returned on a view that is too long and begins with an
   address the scan would accept *)
C16_Witness ==
    /\ pc = "done"
    /\ Len(text) > MAX_INPUT_SIZE
    /\ data = "buffer"
    /\ contains(SubSeq(text, 1, MAX_INPUT_SIZE))

-----------------------------------------------------------------------------
(* Properties of the classifier, checked under SpecClassify.                *)

(* C17: for every byte value, isAtext returns true exactly when the byte is
   an ASCII letter, an ASCII digit or one of the 19 symbols
   ! # $ % & ' * + - / = ? ^ _ ` { | } ~ . *)
C17_AtextSet ==
    pc = "classified" => (result <=> AtextRef(At(text, 0)))

-----------------------------------------------------------------------------
(* Properties of the loops, checked under SpecLoops.                        *)

(* C18: every iteration after which the scan loop of contains or extract goes
   on leaves pos larger than it found it and no larger than the length of the
   text, every iteration after which the loop of validateIPv6 goes on leaves
   its position larger and no larger than the end of the range, extract has
   run its loop body at most pos times, and every call returns. *)
C18_LoopsAdvance ==
    /\ [][ /\ (pc \in {"contains", "extract"} /\ pc' = pc)
              => (frame'.pos > frame.pos /\ frame'.pos <= Len(text))
           /\ (pc = "extract" /\ pc' = pc) => frame'.iterations <= frame'.pos
           /\ (pc = "ipv6loop" /\ pc' = pc)
              => (frame'.pos > frame.pos /\ frame'.pos <= Len(text) - 1) ]_vars
    /\ <>(pc \in {"done", "ipv6"})

(* extract is in its loop after a pass that rejected a candidate at the
   boundary search and a pass that recorded a match *)
C18_Witness ==
    /\ pc = "extract"
    /\ frame.iterations >= 2
    /\ frame.emails # <<>>
    /\ frame.pos < Len(text)
    /\ \E i \in 1..(Len(text) - 4) : At(text, i) = ChAt /\ At(text, i - 1) = ChSpace

-----------------------------------------------------------------------------
(* Properties of the caps of the scanner, checked under Spec.               *)

IsPrefix(s, u) == Len(s) <= Len(u) /\ SubSeq(u, 1, Len(s)) = s

(* C19: extract never returns more than MAX_EMAILS_EXTRACT strings; every
   step of its loop, the one that meets a cap included, keeps the strings
   recorded so far, unchanged and in order, and what it returns is the vector
   as the loop left it; contains returns false when the scanned-characters
   cap ends its loop. *)
C19_CapsKeepMatches ==
    [][ /\ Len(emails') <= MAX_EMAILS_EXTRACT
        /\ pc = "extract" =>
              /\ IsPrefix(frame.emails, frame'.emails)
              /\ pc' = "done" => emails' = frame'.emails
        /\ (pc = "contains" /\ frame'.error) => (pc' = "contained" /\ found' = FALSE) ]_vars

(* extract has returned MAX_EMAILS_EXTRACT strings and left unscanned a rest
   of the text that holds an address it has not returned *)
C19_Witness ==
    /\ pc = "done"
    /\ ~frame.error
    /\ Len(emails) = MAX_EMAILS_EXTRACT
    /\ frame.pos < Len(text)
    /\ \E m \in {extract(SubSeq(text, frame.pos + 1, Len(text)))} :
          m # <<>> /\ \A k \in 1..Len(emails) : emails[k] # m[1]

(* the strings of seq in the order of their first occurrence *)
RECURSIVE FirstOccurrences(_)
FirstOccurrences(seq) ==
    IF seq = <<>> THEN <<>>
    ELSE LET r == FirstOccurrences(SubSeq(seq, 1, Len(seq) - 1))
             x == seq[Len(seq)]
         IN IF \E k \in 1..Len(r) : r[k] = x THEN r ELSE Append(r, x)

(* the bytes of each accepted candidate, in the order of acceptance *)
SpanStrings(t, spans) ==
    [i \in 1..Len(spans) |-> Substring(t, spans[i].start, spans[i].end)]

(* C20: the candidates extract accepts have strictly increasing '@' offsets,
   start offsets and end offsets, and the vector it builds and returns holds
   their strings in that order, each at the place of its first occurrence. *)
C20_FirstOccurrenceOrder ==
    pc \in {"extract", "done"} =>
       /\ \A i, j \in 1..Len(frame.spans) :
             i < j => /\ frame.spans[i].at < frame.spans[j].at
                      /\ frame.spans[i].start < frame.spans[j].start
                      /\ frame.spans[i].end < frame.spans[j].end
       /\ frame.emails = FirstOccurrences(SpanStrings(text, frame.spans))
       /\ pc = "done" => emails = frame.emails

(* extract has returned two strings after accepting three candidates, the
   second a repetition of the first *)
C20_Witness ==
    /\ pc = "done"
    /\ Len(frame.spans) = 3
    /\ Len(emails) = 2
    /\ Substring(text, frame.spans[2].start, frame.spans[2].end) = emails[1]

-----------------------------------------------------------------------------
(* Properties of the shared EmailValidator and of the scanner's boundaries. *)

CountOf(ts, P(_)) == Cardinality({i \in DOMAIN ts : P(ts[i])})

Entered(th) == th.pc # "ready"

ReturnedFalse(th) == th.pc = "returned" /\ ~th.value

AllReturned == \A i \in DOMAIN threads : threads[i].pc = "returned"

(* C21: for any interleaving of N concurrent isValid calls on one
   EmailValidator, every call returns the value it returns when run alone,
   no counter increment is lost (at every moment validationCount is the
   number of calls that have entered and errorCount the number that have
   returned false), and once all calls have returned validationCount = N and
   errorCount = the number of calls that returned false. *)
C21_ThreadSafeCounters ==
    /\ \A i \in DOMAIN threads :
          threads[i].pc = "returned" => threads[i].value = isValid(threads[i].email)
    /\ validationCount = CountOf(threads, Entered)
    /\ errorCount = CountOf(threads, ReturnedFalse)
    /\ AllReturned =>
          /\ validationCount = Len(threads)
          /\ errorCount = Cardinality({i \in DOMAIN threads : ~isValid(threads[i].email)})

(* three calls have all returned, two of them false and one true *)
C21_Witness ==
    /\ Len(threads) = MaxThreads
    /\ AllReturned
    /\ validationCount = MaxThreads
    /\ errorCount = 2
    /\ \E i \in DOMAIN threads : threads[i].value

(* ---- the candidate the running loop is about to examine ---- *)

(* the offset of the '@' the next pass of contains / extract hands to
   findEmailBoundaries, or npos when the pass hands it none *)
NextAnchor ==
    IF /\ pc \in {"contains", "extract"}
       /\ frame.running
       /\ frame.pos < Len(text)
       /\ pc = "extract" => /\ frame.iterations < MAX_SCAN_ITERATIONS
                            /\ frame.extractedCount < MAX_EMAILS_EXTRACT
    THEN LET a == FindAtFrom(text, frame.pos) IN
         IF a # npos /\ a >= 1 /\ a < Len(text) - 3 /\ a >= frame.lastConsumedEnd
         THEN a ELSE npos
    ELSE npos

NextBoundaries == findEmailBoundaries(text, NextAnchor, frame.minScannedIndex)

(* what the left scan of that candidate reports *)
NextLeftScan ==
    LeftScan(text, NextAnchor, RightEnd(text, NextAnchor), frame.minScannedIndex, NextAnchor)

MinOf(S) == CHOOSE x \in S : \A y \in S : x <= y

(* the offset of the illegal byte, or of the right dot of the double dot,
   at which the left scan stopped *)
HitPosition(ls) ==
    IF isInvalidLocalChar(At(text, ls.invalidCharPos - 1))
    THEN ls.invalidCharPos - 1
    ELSE ls.invalidCharPos

(* C22: when the left scan from an '@' at offset at hits an illegal byte or
   a double dot at position p, the candidate start becomes the first letter
   or digit in [p, at); if there is none, the first atext byte in [p, at);
   if neither exists the candidate is rejected and the scan position moves
   past this '@'. *)
C22_InvalidCharRecovery ==
    [][ (NextAnchor # npos /\ At(text, NextAnchor + 1) # ChLBracket
         /\ NextLeftScan.hitInvalidChar) =>
        LET at == NextAnchor
            p == HitPosition(NextLeftScan)
            alnums == {q \in p..(at - 1) : isAlphaNum(At(text, q))}
            atexts == {q \in p..(at - 1) : AtextRef(At(text, q))}
            b == NextBoundaries
        IN IF alnums # {} THEN b.start = MinOf(alnums)
           ELSE IF atexts # {} THEN b.start = MinOf(atexts)
           ELSE ~b.validBoundaries /\ frame'.pos = at + 1 ]_vars

(* extract has returned the address behind a double dot: "a..a@a.a" gives
   "a@a.a" *)
C22_Witness ==
    /\ pc = "done"
    /\ \E i \in 1..Len(frame.spans) :
          LET sp == frame.spans[i] IN
          /\ sp.start >= 3
          /\ At(text, sp.start - 1) = ChDot
          /\ At(text, sp.start - 2) = ChDot
          /\ isAlphaNum(At(text, sp.start - 3))
          /\ isAlphaNum(At(text, sp.start))
          /\ emails = <<Substring(text, sp.start, sp.end)>>

(* the start of the maximal run of atext and '.' bytes that ends just left
   of offset s *)
RECURSIVE RunStart(_, _)
RunStart(t, s) ==
    IF s > 0 /\ (AtextRef(At(t, s - 1)) \/ At(t, s - 1) = ChDot)
    THEN RunStart(t, s - 1)
    ELSE s

HasDoubleDot(t, s, e) == \E q \in s..(e - 2) : At(t, q) = ChDot /\ At(t, q + 1) = ChDot

HasDelimiter(t, s, e) == \E q \in s..(e - 1) : At(t, q) \in {ChApos, ChBacktick}

(* the step examines the '@' at offset at and accepts a candidate there *)
MatchedAt(at) ==
    /\ Len(frame'.spans) = Len(frame.spans) + 1
    /\ frame'.spans[Len(frame'.spans)].at = at

LocalPartsFit ==
    \A i \in 1..Len(frame.spans) :
        /\ frame.spans[i].at - frame.spans[i].start >= 1
        /\ frame.spans[i].at - frame.spans[i].start <= MAX_LOCAL_PART

(* C23 as stated: if the run of atext and single-dot bytes immediately left
   of an '@' (no illegal byte or double dot in it) is longer than
   MAX_LOCAL_PART, no match is produced at that '@'; a run of exactly
   MAX_LOCAL_PART bytes is matched whole; every match has a local part of 1
   to MAX_LOCAL_PART bytes. *)
C23_NeverShortened ==
    /\ [][ NextAnchor # npos =>
           LET at == NextAnchor
               rs == RunStart(text, at)
           IN ~HasDoubleDot(text, rs, at) =>
              /\ at - rs > MAX_LOCAL_PART => ~MatchedAt(at)
              /\ (at - rs = MAX_LOCAL_PART /\ MatchedAt(at)) =>
                    frame'.spans[Len(frame'.spans)].start = rs ]_vars
    /\ []LocalPartsFit

(* C23, amended: the same for a run that begins with a letter or digit and
   holds no apostrophe or backtick; a run that begins with '.' or a symbol,
   or holds a delimiter, can be entered part-way. *)
C23_WholeRunOrNothing ==
    /\ [][ NextAnchor # npos =>
           LET at == NextAnchor
               rs == RunStart(text, at)
           IN (/\ ~HasDoubleDot(text, rs, at)
               /\ ~HasDelimiter(text, rs, at)
               /\ rs < at
               /\ isAlphaNum(At(text, rs))) =>
              /\ at - rs > MAX_LOCAL_PART => ~MatchedAt(at)
              /\ MatchedAt(at) => frame'.spans[Len(frame'.spans)].start = rs ]_vars
    /\ []LocalPartsFit

(* extract has returned an address whose local part is a whole run of
   exactly MAX_LOCAL_PART bytes *)
C23_Witness ==
    /\ pc = "done"
    /\ Len(emails) >= 1
    /\ \E i \in 1..Len(frame.spans) :
          LET sp == frame.spans[i] IN
          /\ sp.at - sp.start = MAX_LOCAL_PART
          /\ sp.start = RunStart(text, sp.at)
          /\ isAlphaNum(At(text, sp.start))
          /\ emails[1] = Substring(text, sp.start, sp.end)

MaxOf(S) == CHOOSE x \in S : \A y \in S : x >= y

(* letters, digits, '-' and '.' *)
DomainCharRef(b) ==
    \/ b \in 48..57
    \/ b \in 65..90
    \/ b \in 97..122
    \/ b \in {ChDash, ChDot}

(* the end of the maximal run of domain characters that starts at from *)
DomainRunEndRef(t, from) ==
    MinOf({e \in from..Len(t) : e = Len(t) \/ ~DomainCharRef(At(t, e))})

(* e with every trailing byte ch of [from, e) removed *)
WithoutTrailing(t, from, e, ch) ==
    MaxOf({x \in from..e : x = from \/ At(t, x - 1) # ch})

EndRef(t, at) ==
    LET run == DomainRunEndRef(t, at + 1)
        dotTrimmed == WithoutTrailing(t, at + 1, run, ChDot)
    IN IF dotTrimmed < Len(t) /\ At(t, dotTrimmed) = ChAt
       THEN WithoutTrailing(t, at + 1, dotTrimmed, ChDash)
       ELSE dotTrimmed

(* C24: the candidate end is the end of the maximal run of domain characters
   after '@' minus all trailing '.' bytes; trailing '-' bytes are removed
   only when that dot-trimmed run is immediately followed by another '@'.
   No extracted string ends with '.' or '-'. *)
C24_RightBoundaryTrimmed ==
    /\ (NextAnchor # npos /\ NextBoundaries.start < NextAnchor) =>
          NextBoundaries.end = EndRef(text, NextAnchor)
    /\ \A i \in 1..Len(frame.spans) :
          /\ frame.spans[i].end = EndRef(text, frame.spans[i].at)
          /\ At(text, frame.spans[i].end - 1) \notin {ChDot, ChDash}
    /\ \A k \in DOMAIN emails : emails[k][Len(emails[k])] \notin {ChDot, ChDash}

(* extract has returned an address that stops before the dot that ends the
   text: "a@aa." gives "a@aa" *)
C24_Witness ==
    /\ pc = "done"
    /\ Len(emails) >= 1
    /\ LET sp == frame.spans[1] IN
       /\ emails[1] = Substring(text, sp.start, sp.end)
       /\ sp.end = Len(text) - 1
       /\ At(text, sp.end) = ChDot

Delimiters == {ChApos, ChBacktick}

(* '=', ':', a text-boundary byte or a quote-like byte *)
KeepsScanning(b) == b \in {ChEquals, ChColon} \/ isScanBoundary(b) \/ isQuoteChar(b)

(* the delimiter at offset q is neither doubled nor matched by the same
   delimiter at the candidate end *)
Unmatched(t, q, end) ==
    /\ At(t, q) \in Delimiters
    /\ q >= 1
    /\ At(t, q - 1) # At(t, q)
    /\ ~(end < Len(t) /\ At(t, end) = At(t, q))

(* C25 as stated: the left scan continues past an apostrophe or backtick
   that is neither doubled nor matched at the candidate end only if the byte
   before it is '=', ':', a text-boundary byte or a quote-like byte; in every
   other context it stops at the delimiter. *)
C25_DelimiterStopsScan ==
    NextAnchor # npos =>
        LET ls == NextLeftScan
            end == RightEnd(text, NextAnchor)
        IN \A q \in (frame.minScannedIndex + 1)..(NextAnchor - 1) :
              (Unmatched(text, q, end) /\ ls.start <= q) => KeepsScanning(At(text, q - 1))

(* C25, amended: the left scan continues past such a delimiter whatever the
   byte before it is; it stops just right of an apostrophe or backtick only
   when the same delimiter stands at the candidate end. *)
C25_DelimiterKeptUnlessMatched ==
    NextAnchor # npos =>
        LET ls == NextLeftScan
            end == RightEnd(text, NextAnchor)
        IN (/\ ~ls.hitInvalidChar
            /\ ls.start > frame.minScannedIndex
            /\ At(text, ls.start - 1) \in Delimiters) =>
           (end < Len(text) /\ At(text, end) = At(text, ls.start - 1))

(* extract has returned an address whose local part holds an apostrophe or
   backtick right behind a letter: "a'a@a.a" is returned whole *)
C25_Witness ==
    /\ pc = "done"
    /\ Len(emails) >= 1
    /\ LET sp == frame.spans[1] IN
       /\ emails[1] = Substring(text, sp.start, sp.end)
       /\ \E q \in (sp.start + 1)..(sp.at - 1) :
             /\ Unmatched(text, q, sp.end)
             /\ isAlpha(At(text, q - 1))

(* C26: while parsing a group of decimal digits of any length, octet * 10 +
   digit is never computed when it would exceed INT_MAX (the group is
   rejected first), so the accumulator stays within 0..INT_MAX, holds the
   value of the digits read, and a group such as "4294967296" or a run of
   300 digits is rejected rather than wrapping to a value <= 255. *)
C26_OctetNeverOverflows ==
    /\ pc = "octet" =>
          /\ ~frame.overflowed
          /\ frame.octet \in 0..INT_MAX
          /\ frame.octet = DecimalValue(SubSeq(text, 1, frame.j))
    /\ pc = "octetdone" => (result <=> OctetRef(text))
    /\ (pc = "octetdone" /\ Len(text) > 0) => ~frame.overflowed

(* "4294967296" has been rejected at its tenth digit, the accumulator still
   holding the value of the first nine *)
C26_Witness ==
    /\ pc = "octetdone"
    /\ text = TwoPow32Digits
    /\ ~result
    /\ frame.j = 9
    /\ frame.octet = 429496729

(* a letter or a digit *)
AlnumRef(b) == b \in 48..57 \/ b \in 65..90 \/ b \in 97..122

(* C27: for every span [start, end) accepted by contains or extract, the
   byte at start - 1 (when start > 0) is not a letter or digit, and the byte
   at end (when end < length) is not a letter or digit, whether or not
   invalid-character recovery was used. *)
C27_NotMidWord ==
    \A i \in 1..Len(frame.spans) :
        LET sp == frame.spans[i] IN
        /\ sp.start > 0 => ~AlnumRef(At(text, sp.start - 1))
        /\ sp.end < Len(text) => ~AlnumRef(At(text, sp.end))

(* extract has accepted two spans with bytes on both sides, one that starts
   behind an illegal byte (recovery) and one that starts behind an '@' *)
C27_Witness ==
    /\ pc = "done"
    /\ Len(frame.spans) >= 2
    /\ \E i, k \in 1..Len(frame.spans) :
          /\ frame.spans[i].start > 0
          /\ frame.spans[i].end < Len(text)
          /\ isInvalidLocalChar(At(text, frame.spans[i].start - 1))
          /\ At(text, frame.spans[i].start - 1) # ChAt
          /\ frame.spans[k].start > 0
          /\ At(text, frame.spans[k].start - 1) = ChAt

AtCount(m) == Cardinality({k \in DOMAIN m : m[k] = ChAt})

(* C28: every string m returned by extract that is at least MIN_EMAIL_SIZE
   bytes long satisfies isValid(m); m has exactly one '@', a local part of at
   most MAX_LOCAL_PART bytes and a domain of at most MAX_DOMAIN_PART bytes
   made of domain characters only. *)
C28_ScanWithinExact ==
    \A m \in {frame.emails[k] : k \in DOMAIN frame.emails} \cup {emails[k] : k \in DOMAIN emails} :
        /\ AtCount(m) = 1
        /\ \A k \in DOMAIN m : m[k] = ChAt => /\ k - 1 \in 1..MAX_LOCAL_PART
                                               /\ Len(m) - k \in 1..MAX_DOMAIN_PART
                                               /\ \A j \in k + 1..Len(m) : isDomainChar(m[j])
        /\ Len(m) <= MAX_LOCAL_PART + 1 + MAX_DOMAIN_PART
        /\ Len(m) >= MIN_EMAIL_SIZE => isValid(m)

(* extract has returned two addresses of MIN_EMAIL_SIZE bytes or more, the
   first one beginning with a symbol, and isValid accepts both *)
C28_Witness ==
    /\ pc = "done"
    /\ Len(emails) = 2
    /\ emails[1][1] = ChHash
    /\ \A k \in DOMAIN emails : Len(emails[k]) >= MIN_EMAIL_SIZE /\ isValid(emails[k])

-----------------------------------------------------------------------------
(* The anchor window of contains and extract.                                *)

(* some k in DOMAIN ms with ms[k] = m *)
Returned(ms, m) == \E k \in DOMAIN ms : ms[k] = m

(* C29: an '@' is an anchor only if its offset p satisfies
   1 <= p < length(text) - 3: the '@' of every candidate contains or extract
   accepts has at least one byte before it and at least three bytes behind
   it, and a text with no '@' at such an offset yields no result. *)
C29_AnchorWindow ==
    /\ \A i \in DOMAIN frame.spans :
          /\ frame.spans[i].at >= 1
          /\ frame.spans[i].at < Len(text) - 3
    /\ (pc = "done" /\ \A p \in 0..Len(text) - 4 : At(text, p) # ChAt) => emails = <<>>

(* extract has returned an address whose '@' has exactly three bytes behind
   it in the text, and the text ends with the same address, whose '@' has
   fewer than three bytes behind it and was not examined *)
C29_Witness ==
    /\ pc = "done"
    /\ \E i \in DOMAIN frame.spans :
          /\ frame.spans[i].at = Len(text) - 4
          /\ Returned(emails, Substring(text, frame.spans[i].start, frame.spans[i].end))
    /\ \E p \in Len(text) - 3..Len(text) - 1 : \E s \in 0..p - 1 :
          /\ At(text, p) = ChAt
          /\ Returned(emails, Substring(text, s, Len(text)))
          /\ \A i \in DOMAIN frame.spans : frame.spans[i].at # p

-----------------------------------------------------------------------------
(* The loop invariant of extract.                                            *)

(* the first '@' at or behind pos, which the next pass of extract tests
   against the anchor window and lastConsumedEnd; npos when the pass ends the
   loop before looking for it *)
NextAt ==
    IF /\ pc = "extract"
       /\ frame.running
       /\ frame.pos < Len(text)
       /\ frame.iterations < MAX_SCAN_ITERATIONS
       /\ frame.extractedCount < MAX_EMAILS_EXTRACT
    THEN FindAtFrom(text, frame.pos)
    ELSE npos

(* the next pass takes the `atPos < lastConsumedEnd` skip *)
SkipTaken ==
    /\ NextAt # npos
    /\ ~(NextAt < 1 \/ NextAt >= Len(text) - 3)
    /\ NextAt < frame.lastConsumedEnd

(* the next pass takes the range check in front of seen.emplace *)
RangeCheckTaken ==
    /\ NextAnchor # npos
    /\ pc = "extract"
    /\ LET b == NextBoundaries IN
       /\ frame.totalCharsScanned + (NextAnchor - b.start) + (b.end - NextAnchor)
             <= MAX_TOTAL_CHARS_SCANNED
       /\ b.validBoundaries
       /\ validateLocalPart(text, b.start, NextAnchor, "SCAN")
       /\ validateDomainPart(text, NextAnchor + 1, b.end)
       /\ (b.start >= Len(text) \/ b.end > Len(text) \/ b.start >= b.end)

(* C30: at the head of every iteration of extract lastConsumedEnd <= pos, and
   minScannedIndex < lastConsumedEnd once a match has been accepted; every
   candidate findEmailBoundaries returns with validBoundaries = true has
   start < atPos < end <= length(text); the `atPos < lastConsumedEnd` skip and
   the range check in front of recording a match are never taken. *)
C30_ExtractLoopInvariant ==
    pc = "extract" =>
        /\ frame.lastConsumedEnd <= frame.pos
        /\ frame.spans # <<>> => frame.minScannedIndex < frame.lastConsumedEnd
        /\ (NextAnchor # npos /\ NextBoundaries.validBoundaries) =>
              /\ NextBoundaries.start < NextAnchor
              /\ NextAnchor < NextBoundaries.end
              /\ NextBoundaries.end <= Len(text)
        /\ ~SkipTaken
        /\ ~RangeCheckTaken

(* extract is at the head of an iteration with a match accepted, and the next
   '@' sits exactly at lastConsumedEnd, passes the skip test and gets valid
   boundaries from findEmailBoundaries *)
C30_Witness ==
    /\ pc = "extract"
    /\ frame.running
    /\ frame.spans # <<>>
    /\ frame.pos = frame.lastConsumedEnd
    /\ NextAt = frame.lastConsumedEnd
    /\ NextAnchor = NextAt
    /\ NextBoundaries.validBoundaries
    /\ frame.minScannedIndex > 0

=============================================================================
